---- MODULE Spec2Model ----
(***************************************************************************)
(* The dependency-execution core of package mg (swdunlop/mage):            *)
(*   - the run registry targetRunMap and targetDep.RunDependency (deps.go) *)
(*   - the drivers CtxDeps (parallel) and SerialCtxDeps (serial)           *)
(*   - the exit-code merge changeExit                                      *)
(*   - makeDependency on the types of the values it is given               *)
(*   - the procedures and products of NewProcedure (procedure.go)          *)
(* Goroutines are the callers of batches and, per batch position, the      *)
(* invocation of RunDependency for that position (a worker goroutine of    *)
(* CtxDeps, or the calling goroutine itself inside SerialCtxDeps).         *)
(***************************************************************************)
EXTENDS Integers, Sequences, FiniteSets, TLC

\* ---------------------------------------------------------------- bounds
\* longest argument list given to a batch
MaxLen == 2
\* number of batch calls made in one run of the program
MaxCalls == 2
\* exit codes tried by the merge are -MaxExit .. MaxExit
MaxExit == 4
\* most parameters, and most results, of a function given to makeDependency
MaxParams == 3
MaxResults == 2
\* products asked for, and run, by one goroutine
MaxRuns == 2
MaxTargets == 3
MaxFold == 3

\* ------------------------------------------------------------- universe
\* goroutines that call Deps / SerialDeps
Callers == {"c1", "c2"}
\* target functions handed to the batches: a declared function A, and two
\* closures F and G made by the same function literal (f, g := newThunk(),
\* newThunk() of TestResolveFuncAddr)
Funcs == {"A", "F", "G"}
\* a caller-supplied Dependency that also implements NamedDependency
Customs == {"N"}
\* a value that is neither a Dependency nor a function
Invalid == {"X"}
Values == Funcs \cup Customs \cup Invalid
\* the untyped nil interface value: Deps(nil), or a nil element of the list
UntypedNil == "nil"

\* name(i): runtime.FuncForPC(reflect.ValueOf(i).Pointer()).Name()
name(i) ==
    CASE i = "A" -> "main.A"
      [] OTHER -> "main.newThunk.func1"

Ids == {name(f) : f \in Funcs}

\* --------------------------------------------------------------- errors
\* an error value: nil, or a message and the exit status it classifies to
Nil == [nil |-> TRUE, msg |-> <<>>, exit |-> 0]
NewError(m, x) == [nil |-> FALSE, msg |-> <<m>>, exit |-> x]
ErrBoom == NewError("boom", 1)
ErrTwo == NewError("two", 2)
ErrBad == NewError("bad", 3)
\* errors whose exit status is not positive
ErrNeg == NewError("neg", 0 - 1)
ErrZero == NewError("zero", 0)
\* ctx.Err() of a canceled context
ErrCanceled == NewError("context canceled", 1)

\* err.Error()
Error(err) == err.msg

\* ExitStatus(err): the exit-status collaborator (0 for nil)
ExitStatus(err) == IF err.nil THEN 0 ELSE err.exit

\* a value given to panic() by a body: an error, or something else
PanicStr == [isError |-> FALSE, err |-> Nil, text |-> <<"oops">>]
\* a body that panics with an error value (an error of exit status 2)
PanicErr == [isError |-> TRUE, err |-> ErrTwo, text |-> <<"two">>]
\* the *reflect.ValueError that Value.Type() panics with on the zero Value
ReflectPanic ==
    [isError |-> TRUE,
     err |-> NewError("reflect: call of reflect.Value.Type on zero Value", 1),
     text |-> <<"reflect: call of reflect.Value.Type on zero Value">>]

\* how a call ended: it returned an error value, or it panicked
Ret(e) == [kind |-> "ret", err |-> e, pv |-> PanicStr]
Pan(v) == [kind |-> "panic", err |-> Nil, pv |-> v]

\* what a target body may do when it runs
BodyOutcomes == {Ret(Nil), Ret(ErrBoom), Ret(ErrTwo), Pan(PanicStr)}
\* what the custom dependency's RunDependency may do
CustomOutcomes == {Ret(Nil), Ret(ErrBad)}
\* bodies that also return errors of exit status 0 and -1 and panic with an
\* error value
WideBodyOutcomes ==
    {Ret(Nil), Ret(ErrBoom), Ret(ErrNeg), Ret(ErrZero), Pan(PanicStr), Pan(PanicErr)}

\* DependencyName() of a dependency, where it has one
DependencyName(dep) == <<"lbl">>
\* dep.(NamedDependency): only the custom dependency has the method
IsNamed(dep) == dep.kind = "custom"

\* fmt.Sprintf(`%v: %v`, a, b)
Sprintf(a, b) == a \o <<": ">> \o b

\* Fatal(code, msg): the abort signal the drivers panic with
Fatal(code, msg) == [kind |-> "fatal", code |-> code, msg |-> msg, pv |-> PanicStr]
\* the batch returned normally
Returned == [kind |-> "ok", code |-> 0, msg |-> <<>>, pv |-> PanicStr]
\* a panic that left the batch as raised
Raised(v) == [kind |-> "panic", code |-> 0, msg |-> <<>>, pv |-> v]
NoResult == [kind |-> "none", code |-> 0, msg |-> <<>>, pv |-> PanicStr]

\* --------------------------------------------------------- changeExit
\* a merge in which the later of two different nonzero codes wins
changeExitNewWins(old, new) ==
    IF new = 0 THEN old
    ELSE IF old = 0 THEN new
    ELSE new

\* changeExit(old, new)
changeExit(old, new) ==
    IF new = 0 THEN old
    ELSE IF old = 0 THEN new
    ELSE IF old = new THEN old
    ELSE 1

\* ---------------------------------------------------------------- state
VARIABLES
    targetRunMap,   \* id -> targetRun record {fn, once, err} (NoRun: no entry)
    runs,           \* fn -> how many times its body was entered (the tests' t1runs..)
    returned,       \* id -> the error values RunDependency has returned for it
    pc,             \* caller -> where it is: idle, adapt, wait, aggregate, serial
    batch,          \* caller -> its current (or last) batch: kind, fns, deps
    inv,            \* caller -> per position, the RunDependency invocation
    errs,           \* caller -> the error slots of CtxDeps
    result,         \* caller -> how its last batch ended
    calls,          \* batch calls made so far
    reached,        \* id -> finished batches that called RunDependency on it
    contained,      \* id -> finished batches with an adapted list that contained it
    canceled,       \* the contexts whose cancel function has been called
    mOld, mNew, mOut, mPc,  \* one application of changeExit
    shV,            \* the value given to makeDependency
    shDep,          \* what makeDependency made of it
    shCtx, shRet,   \* the context the made body is run with, what the function returns
    shArgs, shOut,  \* the arguments the function was called with, what the body yields
    shPc,           \* in, made, called
    products,       \* procedure -> name -> its product (a reference, 0: none)
    heap,           \* the products allocated so far: impl, name, once, err
    mutex,          \* procedure -> the goroutine holding proc.mutex, or "free"
    thr,            \* goroutine -> its call p(name) and RunDependency on the product
    implCalls,      \* impl -> name -> times the impl was invoked with that name
    handed,         \* procedure -> name -> the products p(name) has returned
    omRuns,         \* om.runs: name -> its onceRun (once, err), or no entry
    omMutex,        \* om.mutex: the goroutine holding it, or "free"
    omThr,          \* goroutine -> its call of OnceMap.Do: name, task, position
    omFirst,        \* name -> the task of the first call of Do made for it
    omRan,          \* name -> the tasks that have been executed for it, in order
    omOverlap,      \* name -> whether two calls of Do for it were ever in progress together
    targetRunCtl,   \* the RWMutex of the registry: its writer and its readers
    lthr,           \* goroutine -> its makeDependency and RunDependency on a target
    runOnceMap,     \* dependency.go: id -> the sync.Once of the id (absent: no entry)
    othr,           \* goroutine -> its RunDependency on a targetDep{id, fn}
    nGraph,         \* target or outer caller -> the targets its body hands to its batch
    nKind,          \* whether the batches are Parallel or Serial
    nOnce,          \* target -> the Once of its record and whether an error is cached
    nCall,          \* <<parent, target>> -> the RunDependency call of parent's batch on target
    nRoot,          \* the batch of the outer caller: none, running, done
    fErrs,          \* the error slots given to the loop of CtxDeps
    fPerm,          \* an order of the same dependencies in another list
    fOut,           \* the exit status folded in list order and in the other order
    fPc             \* in, out

vars == <<targetRunMap, runs, returned, pc, batch, inv, errs, result, calls,
          reached, contained, canceled, mOld, mNew, mOut, mPc,
          shV, shDep, shCtx, shRet, shArgs, shOut, shPc,
          products, heap, mutex, thr, implCalls, handed,
          omRuns, omMutex, omThr, omFirst, omRan, omOverlap, targetRunCtl, lthr,
          runOnceMap, othr, nGraph, nKind, nOnce, nCall, nRoot,
          fErrs, fPerm, fOut, fPc>>
mvars == <<mOld, mNew, mOut, mPc>>
svars == <<shV, shDep, shCtx, shRet, shArgs, shOut, shPc>>
pvars == <<products, heap, mutex, thr, implCalls, handed>>
omvars == <<omRuns, omMutex, omThr, omFirst, omRan, omOverlap>>
nestvars == <<nGraph, nKind, nOnce, nCall, nRoot>>
foldvars == <<fErrs, fPerm, fOut, fPc>>
nvars == <<omvars, targetRunCtl, lthr, runOnceMap, othr, nestvars, foldvars>>
\* the state outside the drivers
ovars == <<mvars, svars, pvars, nvars>>
dvars == <<targetRunMap, runs, returned, pc, batch, inv, errs, result, calls,
           reached, contained, canceled>>
\* what no step of the drivers changes
xvars == <<canceled, ovars>>

\* no entry in targetRunMap
NoRun == [fn |-> "none", once |-> "absent", err |-> Nil]
\* &targetRun{fn: fn}
NewRun(fn) == [fn |-> fn, once |-> "fresh", err |-> Nil]

\* context.Background(), the context Deps and SerialDeps pass on
Background == "background"
Contexts == {Background}
\* with a context made by context.WithCancel
Cancelable == "withCancel"
WideContexts == {Background, Cancelable}

NoBatch == [kind |-> "none", ctx |-> Background, fns |-> <<>>, deps |-> <<>>]
\* a RunDependency call: where it is, whether it ran the body itself, the
\* context it was given and how it ended
NoInv == [pc |-> "none", ran |-> FALSE, ctx |-> Background, res |-> Ret(Nil)]

ExitCodes == (0 - MaxExit) .. MaxExit

DriverInit ==
    /\ targetRunMap = [id \in Ids |-> NoRun]
    /\ runs = [f \in Funcs |-> 0]
    /\ returned = [id \in Ids |-> {}]
    /\ pc = [c \in Callers |-> "idle"]
    /\ batch = [c \in Callers |-> NoBatch]
    /\ inv = [c \in Callers |-> <<>>]
    /\ errs = [c \in Callers |-> <<>>]
    /\ result = [c \in Callers |-> NoResult]
    /\ calls = 0
    /\ reached = [id \in Ids |-> 0]
    /\ contained = [id \in Ids |-> 0]
    /\ canceled = {}

\* no changeExit, no makeDependency on its own and no procedure is in use
MergeOff == mOld = 0 /\ mNew = 0 /\ mOut = 0 /\ mPc = "off"
ShapeOff ==
    /\ shV = [dependency |-> FALSE, kind |-> "nil", ins |-> <<>>, outs |-> <<>>]
    /\ shDep = [res |-> "none", hasNamespace |-> FALSE, hasContext |-> FALSE,
                hasError |-> FALSE]
    /\ shCtx = "background" /\ shRet = Nil /\ shArgs = <<>> /\ shOut = Nil
    /\ shPc = "off"
ProcOff ==
    /\ products = <<>> /\ heap = <<>> /\ mutex = <<>> /\ thr = <<>>
    /\ implCalls = <<>> /\ handed = <<>>
\* no OnceMap is in use, and the registry lock is left out
NewOff ==
    /\ omRuns = <<>> /\ omMutex = "free" /\ omThr = <<>>
    /\ omFirst = <<>> /\ omRan = <<>> /\ omOverlap = <<>>
    /\ targetRunCtl = <<>> /\ lthr = <<>>
    /\ runOnceMap = <<>> /\ othr = <<>>
    /\ nGraph = <<>> /\ nKind = "none" /\ nOnce = <<>> /\ nCall = <<>> /\ nRoot = "off"
    /\ fErrs = <<>> /\ fPerm = <<>> /\ fOut = <<0, 0>> /\ fPc = "off"

Init ==
    /\ DriverInit
    /\ MergeOff /\ ShapeOff /\ ProcOff /\ NewOff


\* ------------------------------------------------------------- adapter
NoDep == [kind |-> "none", id |-> "none"]

\* types of parameters and results: a struct without fields, a struct with a
\* field, context.Context, error, int
ParamTypes == {"Namespace", "Struct", "Context", "int"}
ResultTypes == {"error", "int"}
\* t.Kind() and t.NumField()
Kind(t) ==
    IF t \in {"Namespace", "Struct"} THEN "struct"
    ELSE IF t \in {"Context", "error"} THEN "interface" ELSE "int"
NumField(t) == IF t = "Struct" THEN 1 ELSE 0

\* isNamespace(t)
isNamespace(t) ==
    IF Kind(t) # "struct" THEN FALSE
    ELSE IF NumField(t) # 0 THEN FALSE
    ELSE TRUE
\* isContext(t), isError(t)
isContext(t) == t = "Context"
isError(t) == t = "error"

\* a value as makeDependency sees it: whether it implements Dependency, its
\* reflect kind, and for a function its parameter and result types
FuncType(d, i, o) == [dependency |-> d, kind |-> "func", ins |-> i, outs |-> o]
OtherType(d, k) == [dependency |-> d, kind |-> k, ins |-> <<>>, outs |-> <<>>]
GoValues ==
    {FuncType(d, i, o) : d \in BOOLEAN,
                         i \in UNION {[1..n -> ParamTypes] : n \in 0..MaxParams},
                         o \in UNION {[1..n -> ResultTypes] : n \in 0..MaxResults}}
      \cup {OtherType(d, "int") : d \in BOOLEAN}
      \cup {OtherType(FALSE, "nil")}

\* what makeDependency does with a value
Made(r, ns, cx, er) ==
    [res |-> r, hasNamespace |-> ns, hasContext |-> cx, hasError |-> er]

\* makeDependency up to the call of needTargetDep: the type switch, then the
\* reflective walk over the parameters and the results
makeDependencyType(dv) ==
    IF dv.dependency THEN Made("same", FALSE, FALSE, FALSE)
    ELSE IF dv.kind = "func" /\ dv.ins = <<"Context">> /\ dv.outs = <<"error">>
    THEN Made("target", FALSE, TRUE, TRUE)
    ELSE IF dv.kind = "nil" THEN Made("panic", FALSE, FALSE, FALSE)
    ELSE IF dv.kind # "func" THEN Made("error", FALSE, FALSE, FALSE)
    ELSE LET i == Len(dv.ins)
             hasNamespace == 0 < i /\ isNamespace(dv.ins[1])
             x1 == IF hasNamespace THEN 1 ELSE 0
             hasContext == x1 < i /\ isContext(dv.ins[x1 + 1])
             x2 == IF hasContext THEN x1 + 1 ELSE x1
             o == Len(dv.outs)
             hasError == 0 < o /\ isError(dv.outs[1])
             y == IF hasError THEN 1 ELSE 0
         IN IF x2 < i THEN Made("error", FALSE, FALSE, FALSE)
            ELSE IF y < o THEN Made("error", FALSE, FALSE, FALSE)
            ELSE Made("target", hasNamespace, hasContext, hasError)

\* the in list the made body calls the function with
wrapperIn(d, ctx) ==
    (IF d.hasNamespace THEN <<"zero">> ELSE <<>>) \o (IF d.hasContext THEN <<ctx>> ELSE <<>>)
\* what the made body returns when the function gave r
wrapperOut(d, r) ==
    IF ~d.hasError THEN Nil
    ELSE IF r.nil THEN Nil
    ELSE r

\* the types of the values handed to the batches: the targets are func() error,
\* the custom dependency implements Dependency, the invalid value is an int
TypeOf(v) ==
    IF v \in Funcs THEN FuncType(FALSE, <<>>, <<"error">>)
    ELSE IF v \in Customs THEN OtherType(TRUE, "int")
    ELSE IF v = UntypedNil THEN OtherType(FALSE, "nil")
    ELSE OtherType(FALSE, "int")

\* makeDependency: a Dependency is returned unchanged, a target function
\* becomes targetDep(name(fn)), anything else is an error; for the untyped
\* nil, reflect.ValueOf(dep).Type() panics before any error is made
makeDependency(v) ==
    LET made == makeDependencyType(TypeOf(v))
    IN [ok |-> made.res \in {"same", "target"},
        panics |-> made.res = "panic",
        dep |-> IF made.res = "same" THEN [kind |-> "custom", id |-> v]
                ELSE IF made.res = "target" THEN [kind |-> "target", id |-> name(v)]
                ELSE NoDep]

\* a registry whose every adaptation installs a fresh record
needTargetDepReplace(id, fn) == [targetRunMap EXCEPT ![id] = NewRun(fn)]

\* a registry that installs a fresh record once the old one has run
needTargetDepRenew(id, fn) ==
    IF targetRunMap[id] = NoRun \/ targetRunMap[id].once = "done"
    THEN [targetRunMap EXCEPT ![id] = NewRun(fn)]
    ELSE targetRunMap

\* a needTargetDep that hands the record of an identity to the function
\* adapted last
needTargetDepLastFn(id, fn) ==
    IF targetRunMap[id] = NoRun
    THEN [targetRunMap EXCEPT ![id] = NewRun(fn)]
    ELSE [targetRunMap EXCEPT ![id].fn = fn]

\* needTargetDep(id, fn): the registry after the call (insert only if absent)
needTargetDep(id, fn) ==
    IF targetRunMap[id] = NoRun
    THEN [targetRunMap EXCEPT ![id] = NewRun(fn)]
    ELSE targetRunMap

\* dep.getRun(): the record of a targetDep
getRun(dep) == targetRunMap[dep.id]

\* fmt.Errorf(msgInvalidType, dep).Error()
msgInvalidType(v) == <<"Invalid type for dependency: ", v>>

\* ------------------------------------------------------------- drivers
Lists == UNION {[1..n -> Values] : n \in 0..MaxLen}
\* lists that may also hold the untyped nil
WideValues == {"A", "F"} \cup Customs \cup Invalid \cup {UntypedNil}
WideLists == UNION {[1..n -> WideValues] : n \in 0..MaxLen}
Kinds == {"parallel", "serial"}

\* ids of the targets in an argument list
TargetIds(fns) == {name(fns[i]) : i \in {j \in 1..Len(fns) : fns[j] \in Funcs}}
\* ids whose RunDependency call has come back in a batch
DoneIds(ds, iv) ==
    {ds[i].id : i \in {j \in 1..Len(iv) : ds[j].kind = "target" /\ iv[j].pc = "done"}}

\* the batch of caller c is over with result r; iv is its final invocations
EndBatch(c, r, iv) ==
    /\ result' = [result EXCEPT ![c] = r]
    /\ pc' = [pc EXCEPT ![c] = "idle"]
    /\ reached' = [id \in Ids |->
            IF id \in DoneIds(batch[c].deps, iv) THEN reached[id] + 1 ELSE reached[id]]
    /\ contained' = [id \in Ids |->
            IF Len(batch[c].deps) = Len(batch[c].fns) /\ id \in TargetIds(batch[c].fns)
            THEN contained[id] + 1 ELSE contained[id]]

\* Deps / CtxDeps / SerialDeps / SerialCtxDeps is called with a context of
\* ctxs and a list of lists
CallWith(c, ctxs, lists) ==
    /\ pc[c] = "idle"
    /\ calls < MaxCalls
    /\ \E k \in Kinds, ctx \in ctxs, fns \in lists :
          batch' = [batch EXCEPT ![c] =
                      [kind |-> k, ctx |-> ctx, fns |-> fns, deps |-> <<>>]]
    /\ pc' = [pc EXCEPT ![c] = "adapt"]
    /\ inv' = [inv EXCEPT ![c] = <<>>]
    /\ errs' = [errs EXCEPT ![c] = <<>>]
    /\ result' = [result EXCEPT ![c] = NoResult]
    /\ calls' = calls + 1
    /\ UNCHANGED <<targetRunMap, runs, returned, reached, contained, xvars>>

\* Deps / SerialDeps with a list of targets, dependencies and other values
Call(c) == CallWith(c, Contexts, Lists)

\* CtxDeps / SerialCtxDeps with any context, and lists that may hold nil
CallWide(c) == CallWith(c, WideContexts, WideLists)

\* makeDependencies, one value of the list per step
Adapt(c) ==
    /\ pc[c] = "adapt"
    /\ Len(batch[c].deps) < Len(batch[c].fns)
    /\ LET v == batch[c].fns[Len(batch[c].deps) + 1]
           md == makeDependency(v)
       IN IF md.ok
          THEN /\ batch' = [batch EXCEPT ![c].deps = Append(@, md.dep)]
               /\ targetRunMap' = IF md.dep.kind = "target"
                                  THEN needTargetDep(md.dep.id, v)
                                  ELSE targetRunMap
               /\ UNCHANGED <<pc, result, reached, contained>>
          ELSE /\ EndBatch(c, IF md.panics THEN Raised(ReflectPanic)
                               ELSE Fatal(1, msgInvalidType(v)), inv[c])
               /\ UNCHANGED <<batch, targetRunMap>>
    /\ UNCHANGED <<runs, returned, inv, errs, calls, xvars>>

\* a serial driver that starts every position at once
startedAll(kind, n) == 1..n

\* the positions whose RunDependency call is started when the driver begins:
\* every position in CtxDeps (go func), the first one in SerialCtxDeps
started(kind, n) ==
    IF kind = "parallel" THEN 1..n ELSE {1} \cap (1..n)

\* the context a driver hands to RunDependency: its own ctx argument
callCtx(ctx) == ctx

\* the drivers begin after makeDependencies
Launch(c) ==
    /\ pc[c] = "adapt"
    /\ Len(batch[c].deps) = Len(batch[c].fns)
    /\ LET n == Len(batch[c].deps)
           iv == [i \in 1..n |->
                    IF i \in started(batch[c].kind, n)
                    THEN [NoInv EXCEPT !.pc = "call", !.ctx = callCtx(batch[c].ctx)]
                    ELSE NoInv]
       IN /\ inv' = [inv EXCEPT ![c] = iv]
          /\ IF batch[c].kind = "parallel"
             THEN /\ errs' = [errs EXCEPT ![c] = [i \in 1..n |-> Nil]]
                  /\ pc' = [pc EXCEPT ![c] = "wait"]
                  /\ UNCHANGED <<result, reached, contained>>
             ELSE /\ UNCHANGED errs
                  /\ IF n = 0
                     THEN EndBatch(c, Returned, iv)
                     ELSE /\ pc' = [pc EXCEPT ![c] = "serial"]
                          /\ UNCHANGED <<result, reached, contained>>
    /\ UNCHANGED <<targetRunMap, runs, returned, batch, calls, xvars>>

\* a recovery that formats every recovered value
recoverPanicFormatsAll(v) == [nil |-> FALSE, msg |-> v.text, exit |-> 1]

\* recoverPanic(perr): what *perr becomes for a recovered value v
recoverPanic(v) ==
    IF v.isError THEN v.err ELSE [nil |-> FALSE, msg |-> v.text, exit |-> 1]

\* the worker of CtxDeps after RunDependency: the new value of its error slot
workerSlot(old, out) ==
    IF out.kind = "panic" THEN recoverPanic(out.pv)
    ELSE IF ~out.err.nil THEN out.err
    ELSE old

\* a serial driver that goes on after a returned error
serialContinueAlways(out) == out.kind = "ret"

\* a loop that swallows a panic of RunDependency and goes on
serialContinueAfterPanic(out) == out.kind = "panic" \/ out.err.nil

\* SerialCtxDeps goes on to the next dependency after this outcome
serialContinue(out) == out.kind = "ret" /\ out.err.nil

\* an abort signal that always carries exit status 1
serialAbortExitOne(dep, err) == Fatal(1, Error(err))

\* the abort signal SerialCtxDeps panics with for a failed dependency
serialAbort(dep, err) == Fatal(ExitStatus(err), Error(err))

\* the RunDependency call of position i of caller c's batch ended with out
Complete(c, i, out) ==
    LET dep == batch[c].deps[i]
        n == Len(batch[c].deps)
        iv == [inv[c] EXCEPT ![i].pc = "done", ![i].res = out]
    IN /\ returned' = IF dep.kind = "target" /\ out.kind = "ret"
                      THEN [returned EXCEPT ![dep.id] = @ \cup {out.err}]
                      ELSE returned
       /\ IF batch[c].kind = "parallel"
          THEN /\ inv' = [inv EXCEPT ![c] = iv]
               /\ errs' = [errs EXCEPT ![c][i] = workerSlot(@, out)]
               /\ UNCHANGED <<pc, result, reached, contained>>
          ELSE /\ UNCHANGED errs
               /\ IF serialContinue(out)
                  THEN IF i = n
                       THEN /\ inv' = [inv EXCEPT ![c] = iv]
                            /\ EndBatch(c, Returned, iv)
                       ELSE /\ inv' = [inv EXCEPT ![c] =
                                         [iv EXCEPT ![i + 1].pc = "call",
                                                    ![i + 1].ctx = callCtx(batch[c].ctx)]]
                            /\ UNCHANGED <<pc, result, reached, contained>>
                  ELSE /\ inv' = [inv EXCEPT ![c] = iv]
                       /\ EndBatch(c, IF out.kind = "panic" THEN Raised(out.pv)
                                      ELSE serialAbort(dep, out.err), iv)

\* a Once that lets the function run again after it is done
onceOpenAlways(run) == run.once # "running"

\* a Once that opens again when the cached error is the cancel error
onceOpenRetryCanceled(run) ==
    run.once = "fresh" \/ (run.once = "done" /\ run.err = ErrCanceled)

\* once.Do may run the function: the Once has not been used
onceOpen(run) == run.once = "fresh"

\* a Once that lets later callers through while the function still runs
oncePassEarly(run) == run.once # "fresh"

\* a Once that never lets a waiting caller through
oncePassNever(run) == FALSE

\* once.Do returns without running the function: an earlier call completed
oncePass(run) == run.once = "done"

\* targetDep.RunDependency: once.Do starts the body
EnterBody(c, i) ==
    /\ i \in 1..Len(inv[c])
    /\ inv[c][i].pc = "call"
    /\ batch[c].deps[i].kind = "target"
    /\ LET dep == batch[c].deps[i]
           run == getRun(dep)
       IN /\ onceOpen(run)
          /\ targetRunMap' = [targetRunMap EXCEPT ![dep.id].once = "running"]
          /\ runs' = [runs EXCEPT ![run.fn] = @ + 1]
    /\ inv' = [inv EXCEPT ![c][i].pc = "body", ![c][i].ran = TRUE]
    /\ UNCHANGED <<returned, pc, batch, errs, result, calls, reached, contained, xvars>>

\* the record after the body ended with o: run.err is assigned only when the
\* body returns; sync.Once is done either way
afterBody(run, o) ==
    IF o.kind = "ret" THEN [run EXCEPT !.err = o.err, !.once = "done"]
    ELSE [run EXCEPT !.once = "done"]

\* what a body may return because of the context it was given
CtxOutcomes(ctx) == IF ctx \in canceled THEN {Ret(ErrCanceled)} ELSE {}

\* the outcomes of a body, by the context it is given
StdOutcomes == [ctx \in WideContexts |-> BodyOutcomes]
WideOutcomes == [ctx \in WideContexts |-> WideBodyOutcomes \cup CtxOutcomes(ctx)]

\* the body ends; RunDependency returns run.err, or the panic goes on
FinishBodyWith(c, i, outcomes) ==
    /\ i \in 1..Len(inv[c])
    /\ inv[c][i].pc = "body"
    /\ \E o \in outcomes[inv[c][i].ctx] :
         LET dep == batch[c].deps[i]
             run == afterBody(getRun(dep), o)
         IN /\ targetRunMap' = [targetRunMap EXCEPT ![dep.id] = run]
            /\ Complete(c, i, IF o.kind = "ret" THEN Ret(run.err) ELSE o)
    /\ UNCHANGED <<runs, batch, calls, xvars>>

FinishBody(c, i) == FinishBodyWith(c, i, StdOutcomes)
FinishBodyWide(c, i) == FinishBodyWith(c, i, WideOutcomes)

\* targetDep.RunDependency when the Once is done: return run.err
CachedReturn(c, i) ==
    /\ i \in 1..Len(inv[c])
    /\ inv[c][i].pc = "call"
    /\ batch[c].deps[i].kind = "target"
    /\ oncePass(getRun(batch[c].deps[i]))
    /\ Complete(c, i, Ret(getRun(batch[c].deps[i]).err))
    /\ UNCHANGED <<targetRunMap, runs, batch, calls, xvars>>

\* RunDependency of the caller-supplied dependency
CustomRun(c, i) ==
    /\ i \in 1..Len(inv[c])
    /\ inv[c][i].pc = "call"
    /\ batch[c].deps[i].kind = "custom"
    /\ \E o \in CustomOutcomes : Complete(c, i, o)
    /\ UNCHANGED <<targetRunMap, runs, batch, calls, xvars>>

\* a wait that ends with the first worker that comes back
joinReadyAny(c) == \E i \in 1..Len(inv[c]) : inv[c][i].pc = "done"

\* a wait that ends as soon as one slot holds an error (fail-fast)
joinReadyFailFast(c) ==
    \/ \A i \in 1..Len(inv[c]) : inv[c][i].pc = "done"
    \/ \E i \in 1..Len(errs[c]) : ~errs[c][i].nil

\* group.Wait() returns: every worker has called group.Done()
joinReady(c) == \A i \in 1..Len(inv[c]) : inv[c][i].pc = "done"

\* CtxDeps passes group.Wait()
Join(c) ==
    /\ pc[c] = "wait"
    /\ joinReady(c)
    /\ pc' = [pc EXCEPT ![c] = "aggregate"]
    /\ UNCHANGED <<targetRunMap, runs, returned, batch, inv, errs, result, calls,
                   reached, contained, xvars>>

RECURSIVE aggExit(_, _)
\* the exit status after the first k error slots
aggExit(es, k) ==
    IF k = 0 THEN 0
    ELSE IF es[k].nil THEN aggExit(es, k - 1)
    ELSE changeExit(aggExit(es, k - 1), ExitStatus(es[k]))

RECURSIVE aggMsgsNewestFirst(_, _, _)
\* messages collected with the latest position first
aggMsgsNewestFirst(es, ds, k) ==
    IF k = 0 THEN <<>>
    ELSE IF es[k].nil THEN aggMsgsNewestFirst(es, ds, k - 1)
    ELSE <<IF IsNamed(ds[k]) THEN Sprintf(DependencyName(ds[k]), Error(es[k]))
           ELSE Error(es[k])>> \o aggMsgsNewestFirst(es, ds, k - 1)

RECURSIVE aggMsgs(_, _, _)
\* the messages after the first k error slots
aggMsgs(es, ds, k) ==
    IF k = 0 THEN <<>>
    ELSE IF es[k].nil THEN aggMsgs(es, ds, k - 1)
    ELSE Append(aggMsgs(es, ds, k - 1),
                IF IsNamed(ds[k]) THEN Sprintf(DependencyName(ds[k]), Error(es[k]))
                ELSE Error(es[k]))

RECURSIVE stringsJoin(_, _)
\* strings.Join(msgs, sep)
stringsJoin(msgs, sep) ==
    IF Len(msgs) = 0 THEN <<>>
    ELSE IF Len(msgs) = 1 THEN msgs[1]
    ELSE msgs[1] \o <<sep>> \o stringsJoin(Tail(msgs), sep)

\* CtxDeps after group.Wait(): fold the slots, panic if exit > 0
Aggregate(c) ==
    /\ pc[c] = "aggregate"
    /\ LET es == errs[c]
           exit == aggExit(es, Len(es))
           msgs == aggMsgs(es, batch[c].deps, Len(es))
       IN EndBatch(c, IF exit > 0 THEN Fatal(exit, stringsJoin(msgs, "\n")) ELSE Returned,
                   inv[c])
    /\ UNCHANGED <<targetRunMap, runs, returned, batch, inv, errs, calls, xvars>>

Next ==
    \/ \E c \in Callers : Call(c)
    \/ \E c \in Callers : Adapt(c)
    \/ \E c \in Callers : Launch(c)
    \/ \E c \in Callers, i \in 1..MaxLen : EnterBody(c, i)
    \/ \E c \in Callers, i \in 1..MaxLen : FinishBody(c, i)
    \/ \E c \in Callers, i \in 1..MaxLen : CachedReturn(c, i)
    \/ \E c \in Callers, i \in 1..MaxLen : CustomRun(c, i)
    \/ \E c \in Callers : Join(c)
    \/ \E c \in Callers : Aggregate(c)

Spec == Init /\ [][Next]_vars

\* ------------------------------------------ one caller, a wider universe
\* the cancel function of a context is called
Cancel(ctx) ==
    /\ ctx \notin canceled
    /\ canceled' = canceled \cup {ctx}
    /\ UNCHANGED <<targetRunMap, runs, returned, pc, batch, inv, errs, result, calls,
                   reached, contained, ovars>>

\* the goroutine that calls the batches one after the other
WideCallers == {"c1"}

NextWide ==
    \/ \E c \in WideCallers : CallWide(c)
    \/ \E c \in WideCallers : Adapt(c)
    \/ \E c \in WideCallers : Launch(c)
    \/ \E c \in WideCallers, i \in 1..MaxLen : EnterBody(c, i)
    \/ \E c \in WideCallers, i \in 1..MaxLen : FinishBodyWide(c, i)
    \/ \E c \in WideCallers, i \in 1..MaxLen : CachedReturn(c, i)
    \/ \E c \in WideCallers, i \in 1..MaxLen : CustomRun(c, i)
    \/ \E c \in WideCallers : Join(c)
    \/ \E c \in WideCallers : Aggregate(c)
    \/ \E ctx \in WideContexts \ {Background} : Cancel(ctx)

SpecWide == Init /\ [][NextWide]_vars


\* ------------------------------------------------- changeExit on its own
\* the merge applied to one pair of exit codes
MergeInit ==
    /\ DriverInit /\ ShapeOff /\ ProcOff /\ NewOff
    /\ mOld \in ExitCodes /\ mNew \in ExitCodes
    /\ mOut = 0 /\ mPc = "in"

MergeStep ==
    /\ mPc = "in"
    /\ mOut' = changeExit(mOld, mNew)
    /\ mPc' = "out"
    /\ UNCHANGED <<mOld, mNew, dvars, svars, pvars, nvars>>

SpecMerge == MergeInit /\ [][MergeStep]_vars

\* --------------------------------------------- makeDependency on its own
\* makeDependency is given one value
ShapeInit ==
    /\ DriverInit /\ MergeOff /\ ProcOff /\ NewOff
    /\ shV \in GoValues
    /\ shDep = [res |-> "none", hasNamespace |-> FALSE, hasContext |-> FALSE,
                hasError |-> FALSE]
    /\ shCtx = "background" /\ shRet = Nil /\ shArgs = <<>> /\ shOut = Nil
    /\ shPc = "in"

\* makeDependency returns (or panics)
MakeDep ==
    /\ shPc = "in"
    /\ shDep' = makeDependencyType(shV)
    /\ shPc' = "made"
    /\ UNCHANGED <<shV, shCtx, shRet, shArgs, shOut, dvars, mvars, pvars, nvars>>

\* what a function with these result types may return as its first result
FuncReturns(outs) ==
    IF Len(outs) > 0 /\ outs[1] = "error" THEN {Nil, ErrBoom} ELSE {Nil}

\* the body registered for a target is run with a context: it calls the
\* function and returns
RunMade ==
    /\ shPc = "made"
    /\ shDep.res = "target"
    /\ \E ctx \in WideContexts, r \in FuncReturns(shV.outs) :
          /\ shCtx' = ctx
          /\ shRet' = r
          /\ shArgs' = wrapperIn(shDep, ctx)
          /\ shOut' = wrapperOut(shDep, r)
    /\ shPc' = "called"
    /\ UNCHANGED <<shV, shDep, dvars, mvars, pvars, nvars>>

NextShape == MakeDep \/ RunMade

SpecShape == ShapeInit /\ [][NextShape]_vars

\* the four supported shapes, each with or without a leading namespace
Supported(dv) ==
    /\ dv.kind = "func"
    /\ dv.ins \in {<<>>, <<"Context">>, <<"Namespace">>, <<"Namespace", "Context">>}
    /\ dv.outs \in {<<>>, <<"error">>}
TakesContext(dv) == \E i \in 1..Len(dv.ins) : dv.ins[i] = "Context"

\* C16: makeDependency returns a Dependency unchanged, accepts a function
\* exactly when it has one of the supported shapes, and returns an error for
\* every other value; the body made for an accepted function calls it with the
\* zero namespace and the caller's context where it takes them, and yields
\* its error, or nil when it returns none
C16_MakeDependencyShapes ==
    /\ shPc \in {"made", "called"} =>
          /\ shV.dependency => shDep.res = "same"
          /\ ~shV.dependency /\ Supported(shV) => shDep.res = "target"
          /\ ~shV.dependency /\ ~Supported(shV) => shDep.res = "error"
    /\ shPc = "called" =>
          /\ Supported(shV)
          /\ shArgs = (IF shV.ins # <<>> /\ shV.ins[1] = "Namespace"
                       THEN <<"zero">> ELSE <<>>)
                          \o (IF TakesContext(shV) THEN <<shCtx>> ELSE <<>>)
          /\ shOut = IF shV.outs = <<"error">> THEN shRet ELSE Nil

\* ------------------------------------------------------------ procedures
\* two procedures made by NewProcedure, each with its own impl, the names
\* their products are asked for, and the goroutines that ask
Procs == {"p", "q"}
Names == {"x", "y"}
Goroutines == {"g1", "g2"}
\* proc.impl
ImplOf(proc) == IF proc = "p" THEN "implP" ELSE "implQ"
Impls == {ImplOf(proc) : proc \in Procs}
\* what impl(ctx, name) may do
ImplOutcomes == {Ret(Nil), Ret(ErrBoom), Pan(PanicStr)}

\* no product (a nil *product)
NoProd == 0
\* &product{impl: proc.impl, name: name}
NewProduct(proc, n) ==
    [impl |-> ImplOf(proc), nm |-> n, once |-> "fresh", err |-> Nil]
\* a goroutine that has called nothing yet
NoThread == [pc |-> "idle", proc |-> "p", nm |-> "x", prod |-> NoProd, hist |-> <<>>]

ProcInit ==
    /\ DriverInit /\ MergeOff /\ ShapeOff /\ NewOff
    /\ products = [proc \in Procs |-> [n \in Names |-> NoProd]]
    /\ heap = <<>>
    /\ mutex = [proc \in Procs |-> "free"]
    /\ thr = [g \in Goroutines |-> NoThread]
    /\ implCalls = [i \in Impls |-> [n \in Names |-> 0]]
    /\ handed = [proc \in Procs |-> [n \in Names |-> {}]]

\* one product table for all procedures
productsShared(proc) == "p"

\* proc.products: the table of the procedure itself
productsOf(proc) == proc

\* a lookup that never finds a product
lookupMiss(proc, n) == NoProd

\* proc.products[name]
lookup(proc, n) == products[productsOf(proc)][n]

\* a goroutine calls the procedure with a name: p(name)
ProcCall(g) ==
    /\ thr[g].pc = "idle"
    /\ Len(thr[g].hist) < MaxRuns
    /\ \E proc \in Procs, n \in Names :
          thr' = [thr EXCEPT ![g].pc = "lock", ![g].proc = proc, ![g].nm = n,
                             ![g].prod = NoProd]
    /\ UNCHANGED <<products, heap, mutex, implCalls, handed, dvars, mvars, svars, nvars>>

\* newProduct: proc.mutex.Lock()
Lock(g) ==
    /\ thr[g].pc = "lock"
    /\ mutex[thr[g].proc] = "free"
    /\ mutex' = [mutex EXCEPT ![thr[g].proc] = g]
    /\ thr' = [thr EXCEPT ![g].pc = "section"]
    /\ UNCHANGED <<products, heap, implCalls, handed, dvars, mvars, svars, nvars>>

\* newProduct under the mutex: return the product of the name, or make and
\* register one; the deferred Unlock
newProduct(g) ==
    /\ thr[g].pc = "section"
    /\ LET proc == thr[g].proc
           n == thr[g].nm
           prod == lookup(proc, n)
           ret == IF prod # NoProd THEN prod ELSE Len(heap) + 1
       IN /\ IF prod # NoProd
             THEN UNCHANGED <<heap, products>>
             ELSE /\ heap' = Append(heap, NewProduct(proc, n))
                  /\ products' = [products EXCEPT ![productsOf(proc)][n] = ret]
          /\ thr' = [thr EXCEPT ![g].pc = "call", ![g].prod = ret]
          /\ handed' = [handed EXCEPT ![proc][n] = @ \cup {ret}]
          /\ mutex' = [mutex EXCEPT ![proc] = "free"]
    /\ UNCHANGED <<implCalls, dvars, mvars, svars, nvars>>

\* the RunDependency call of g is over with out
ProdBack(g, out) ==
    [thr EXCEPT ![g].pc = "idle",
                ![g].hist = Append(@, [proc |-> thr[g].proc, nm |-> thr[g].nm,
                                       prod |-> thr[g].prod, res |-> out])]

\* product.RunDependency: once.Do starts prod.impl(ctx, prod.name)
ProdEnter(g) ==
    /\ thr[g].pc = "call"
    /\ LET prod == heap[thr[g].prod]
       IN /\ onceOpen(prod)
          /\ heap' = [heap EXCEPT ![thr[g].prod].once = "running"]
          /\ implCalls' = [implCalls EXCEPT ![prod.impl][prod.nm] = @ + 1]
    /\ thr' = [thr EXCEPT ![g].pc = "body"]
    /\ UNCHANGED <<products, mutex, handed, dvars, mvars, svars, nvars>>

\* the impl ends; RunDependency returns prod.err, or the panic goes on
ProdFinish(g) ==
    /\ thr[g].pc = "body"
    /\ \E o \in ImplOutcomes :
          LET prod == afterBody(heap[thr[g].prod], o)
          IN /\ heap' = [heap EXCEPT ![thr[g].prod] = prod]
             /\ thr' = ProdBack(g, IF o.kind = "ret" THEN Ret(prod.err) ELSE o)
    /\ UNCHANGED <<products, mutex, implCalls, handed, dvars, mvars, svars, nvars>>

\* product.RunDependency when the Once is done: return prod.err
ProdCached(g) ==
    /\ thr[g].pc = "call"
    /\ oncePass(heap[thr[g].prod])
    /\ thr' = ProdBack(g, Ret(heap[thr[g].prod].err))
    /\ UNCHANGED <<products, heap, mutex, implCalls, handed, dvars, mvars, svars, nvars>>

NextProc ==
    \/ \E g \in Goroutines : ProcCall(g)
    \/ \E g \in Goroutines : Lock(g)
    \/ \E g \in Goroutines : newProduct(g)
    \/ \E g \in Goroutines : ProdEnter(g)
    \/ \E g \in Goroutines : ProdFinish(g)
    \/ \E g \in Goroutines : ProdCached(g)

SpecProc == ProcInit /\ [][NextProc]_vars

\* --------------------------------------------------------------- OnceMap
\* Tasks are run under the names of Names and may do what ImplOutcomes
\* lists. Every call passes a function value of its own as task: <<g, k>> is
\* the task of the k-th call of goroutine g, <<>> no task.
\* no entry in om.runs (a nil *onceRun), and new(onceRun)
NoOnceRun == [once |-> "absent", err |-> Nil]
NewOnceRun == [once |-> "fresh", err |-> Nil]
OnceInit ==
    /\ DriverInit /\ MergeOff /\ ShapeOff /\ ProcOff
    /\ omRuns = [n \in Names |-> NoOnceRun]
    /\ omMutex = "free"
    /\ omThr = [g \in Goroutines |->
                  [pc |-> "idle", nm |-> "x", task |-> <<>>, hist |-> <<>>]]
    /\ omFirst = [n \in Names |-> <<>>]
    /\ omRan = [n \in Names |-> <<>>]
    /\ omOverlap = [n \in Names |-> FALSE]
    /\ targetRunCtl = <<>> /\ lthr = <<>>
    /\ runOnceMap = <<>> /\ othr = <<>>
    /\ nGraph = <<>> /\ nKind = "none" /\ nOnce = <<>> /\ nCall = <<>> /\ nRoot = "off"
    /\ fErrs = <<>> /\ fPerm = <<>> /\ fOut = <<0, 0>> /\ fPc = "off"

\* a lookup that hands every caller a onceRun of its own
omLookupNew(n) == NoOnceRun

\* om.runs[name]
omLookup(n) == omRuns[n]

\* a goroutine calls om.Do(name, task)
OmCall(g) ==
    /\ omThr[g].pc = "idle"
    /\ Len(omThr[g].hist) < MaxRuns
    /\ \E n \in Names :
          LET task == <<g, Len(omThr[g].hist) + 1>>
          IN /\ omThr' = [omThr EXCEPT ![g].pc = "lock", ![g].nm = n,
                                       ![g].task = task]
             /\ omFirst' = IF omFirst[n] = <<>>
                           THEN [omFirst EXCEPT ![n] = task] ELSE omFirst
             /\ omOverlap' =
                   IF \E h \in Goroutines \ {g} :
                          omThr[h].pc # "idle" /\ omThr[h].nm = n
                   THEN [omOverlap EXCEPT ![n] = TRUE] ELSE omOverlap
    /\ UNCHANGED <<omRuns, omMutex, omRan, dvars, mvars, svars, pvars,
                   targetRunCtl, lthr, runOnceMap, othr, nestvars, foldvars>>

\* om.mutex.Lock()
OmLock(g) ==
    /\ omThr[g].pc = "lock"
    /\ omMutex = "free"
    /\ omMutex' = g
    /\ omThr' = [omThr EXCEPT ![g].pc = "section"]
    /\ UNCHANGED <<omRuns, omFirst, omRan, omOverlap, dvars, mvars, svars, pvars,
                   targetRunCtl, lthr, runOnceMap, othr, nestvars, foldvars>>

\* under the mutex: the onceRun of the name, made and registered when there
\* is none; om.mutex.Unlock()
OmSection(g) ==
    /\ omThr[g].pc = "section"
    /\ omRuns' = IF omLookup(omThr[g].nm) = NoOnceRun
                 THEN [omRuns EXCEPT ![omThr[g].nm] = NewOnceRun] ELSE omRuns
    /\ omMutex' = "free"
    /\ omThr' = [omThr EXCEPT ![g].pc = "once"]
    /\ UNCHANGED <<omFirst, omRan, omOverlap, dvars, mvars, svars, pvars,
                   targetRunCtl, lthr, runOnceMap, othr, nestvars, foldvars>>

\* the call of Do by g is over with out
OmBack(g, out, ran) ==
    [omThr EXCEPT ![g].pc = "idle",
                  ![g].hist = Append(@, [nm |-> omThr[g].nm, task |-> omThr[g].task,
                                         res |-> out, ran |-> ran])]

\* run.once.Do starts the function that calls task()
OmEnter(g) ==
    /\ omThr[g].pc = "once"
    /\ onceOpen(omRuns[omThr[g].nm])
    /\ omRuns' = [omRuns EXCEPT ![omThr[g].nm].once = "running"]
    /\ omRan' = [omRan EXCEPT ![omThr[g].nm] = Append(@, omThr[g].task)]
    /\ omThr' = [omThr EXCEPT ![g].pc = "task"]
    /\ UNCHANGED <<omMutex, omFirst, omOverlap, dvars, mvars, svars, pvars,
                   targetRunCtl, lthr, runOnceMap, othr, nestvars, foldvars>>

\* the task ends: run.err = task(), and Do returns run.err; a panic of the
\* task goes on through Do and leaves run.err unset
OmFinish(g) ==
    /\ omThr[g].pc = "task"
    /\ \E o \in ImplOutcomes :
          LET run == afterBody(omRuns[omThr[g].nm], o)
          IN /\ omRuns' = [omRuns EXCEPT ![omThr[g].nm] = run]
             /\ omThr' = OmBack(g, IF o.kind = "ret" THEN Ret(run.err) ELSE o, TRUE)
    /\ UNCHANGED <<omMutex, omFirst, omRan, omOverlap, dvars, mvars, svars, pvars,
                   targetRunCtl, lthr, runOnceMap, othr, nestvars, foldvars>>

\* run.once.Do when the Once is done: Do returns run.err
OmCached(g) ==
    /\ omThr[g].pc = "once"
    /\ oncePass(omRuns[omThr[g].nm])
    /\ omThr' = OmBack(g, Ret(omRuns[omThr[g].nm].err), FALSE)
    /\ UNCHANGED <<omRuns, omMutex, omFirst, omRan, omOverlap, dvars, mvars, svars,
                   pvars, targetRunCtl, lthr, runOnceMap, othr, nestvars, foldvars>>

NextOnce ==
    \/ \E g \in Goroutines : OmCall(g)
    \/ \E g \in Goroutines : OmLock(g)
    \/ \E g \in Goroutines : OmSection(g)
    \/ \E g \in Goroutines : OmEnter(g)
    \/ \E g \in Goroutines : OmFinish(g)
    \/ \E g \in Goroutines : OmCached(g)

SpecOnce == OnceInit /\ [][NextOnce]_vars

\* ---------------------------------------------------- the registry lock
\* Goroutines adapt and run targets through the registry, with the steps of
\* targetRunCtl spelled out, and call procedures beside that.
LockInit ==
    /\ DriverInit /\ MergeOff /\ ShapeOff
    /\ products = [proc \in Procs |-> [n \in Names |-> NoProd]]
    /\ heap = <<>>
    /\ mutex = [proc \in Procs |-> "free"]
    /\ thr = [g \in Goroutines |-> NoThread]
    /\ implCalls = [i \in Impls |-> [n \in Names |-> 0]]
    /\ handed = [proc \in Procs |-> [n \in Names |-> {}]]
    /\ omRuns = <<>> /\ omMutex = "free" /\ omThr = <<>>
    /\ omFirst = <<>> /\ omRan = <<>> /\ omOverlap = <<>>
    /\ targetRunCtl = [w |-> "free", r |-> {}]
    /\ lthr = [g \in Goroutines |-> [pc |-> "idle", fn |-> "A", saw |-> FALSE, n |-> 0]]
    /\ runOnceMap = <<>> /\ othr = <<>>
    /\ nGraph = <<>> /\ nKind = "none" /\ nOnce = <<>> /\ nCall = <<>> /\ nRoot = "off"
    /\ fErrs = <<>> /\ fPerm = <<>> /\ fOut = <<0, 0>> /\ fPc = "off"

\* g leaves pc for the next position; saw tells whether it went through
\* needTargetDep and getRun while another goroutine was inside a body
lockStep(g, next) ==
    [lthr EXCEPT ![g].pc = next,
                 ![g].saw =
                     LET busy == \E h \in Goroutines \ {g} :
                                     lthr[h].pc = "body" \/ thr[h].pc = "body"
                     IN IF lthr[g].pc = "need" THEN busy
                        ELSE IF lthr[g].pc = "get" THEN @ /\ busy
                        ELSE IF next = "idle" THEN FALSE ELSE @,
                 ![g].n = IF next = "idle" THEN @ + 1 ELSE @]

\* a goroutine with calls left calls makeDependency on one of two target
\* functions of different identities
LockCall(g) ==
    /\ lthr[g].pc = "idle" /\ thr[g].pc = "idle"
    /\ lthr[g].n + Len(thr[g].hist) < MaxRuns
    /\ \E f \in {"A", "F"} : lthr' = [lthr EXCEPT ![g].pc = "lock", ![g].fn = f]
    /\ UNCHANGED <<targetRunCtl, dvars, mvars, svars, pvars, omvars, runOnceMap, othr,
                   nestvars, foldvars>>

\* or calls a procedure with a name
LockProcCall(g) ==
    /\ lthr[g].pc = "idle"
    /\ lthr[g].n + Len(thr[g].hist) < MaxRuns
    /\ ProcCall(g)

\* needTargetDep: targetRunCtl.Lock()
wLock(g) ==
    /\ lthr[g].pc = "lock"
    /\ targetRunCtl = [w |-> "free", r |-> {}]
    /\ targetRunCtl' = [targetRunCtl EXCEPT !.w = g]
    /\ lthr' = lockStep(g, "need")
    /\ UNCHANGED <<dvars, mvars, svars, pvars, omvars, runOnceMap, othr,
                   nestvars, foldvars>>

\* needTargetDep under the lock, and its deferred Unlock
LockNeed(g) ==
    /\ lthr[g].pc = "need"
    /\ targetRunMap' = needTargetDep(name(lthr[g].fn), lthr[g].fn)
    /\ targetRunCtl' = [targetRunCtl EXCEPT !.w = "free"]
    /\ lthr' = lockStep(g, "rlock")
    /\ UNCHANGED <<runs, returned, pc, batch, inv, errs, result, calls, reached,
                   contained, canceled,
                   mvars, svars, pvars, omvars, runOnceMap, othr, nestvars, foldvars>>

\* getRun: targetRunCtl.RLock()
rLock(g) ==
    /\ lthr[g].pc = "rlock"
    /\ targetRunCtl.w = "free"
    /\ targetRunCtl' = [targetRunCtl EXCEPT !.r = @ \cup {g}]
    /\ lthr' = lockStep(g, "get")
    /\ UNCHANGED <<dvars, mvars, svars, pvars, omvars, runOnceMap, othr,
                   nestvars, foldvars>>

\* a getRun that keeps the read lock
rUnlockNever(g) == targetRunCtl

\* getRun's deferred targetRunCtl.RUnlock()
rUnlock(g) == [targetRunCtl EXCEPT !.r = @ \ {g}]

\* getRun under the read lock: the record is read, the lock released
LockGet(g) ==
    /\ lthr[g].pc = "get"
    /\ targetRunCtl' = rUnlock(g)
    /\ lthr' = lockStep(g, "once")
    /\ UNCHANGED <<dvars, mvars, svars, pvars, omvars, runOnceMap, othr,
                   nestvars, foldvars>>

\* targetDep.RunDependency: once.Do starts the body
LockEnter(g) ==
    /\ lthr[g].pc = "once"
    /\ onceOpen(targetRunMap[name(lthr[g].fn)])
    /\ targetRunMap' = [targetRunMap EXCEPT ![name(lthr[g].fn)].once = "running"]
    /\ runs' = [runs EXCEPT ![targetRunMap[name(lthr[g].fn)].fn] = @ + 1]
    /\ lthr' = lockStep(g, "body")
    /\ UNCHANGED <<targetRunCtl, returned, pc, batch, inv, errs, result, calls,
                   reached, contained, canceled,
                   mvars, svars, pvars, omvars, runOnceMap, othr, nestvars, foldvars>>

\* the body ends
LockFinish(g) ==
    /\ lthr[g].pc = "body"
    /\ \E o \in BodyOutcomes :
          targetRunMap' = [targetRunMap EXCEPT ![name(lthr[g].fn)] = afterBody(@, o)]
    /\ lthr' = lockStep(g, "idle")
    /\ UNCHANGED <<targetRunCtl, runs, returned, pc, batch, inv, errs, result, calls,
                   reached, contained, canceled,
                   mvars, svars, pvars, omvars, runOnceMap, othr, nestvars, foldvars>>

\* targetDep.RunDependency when the Once is done
LockCached(g) ==
    /\ lthr[g].pc = "once"
    /\ oncePass(targetRunMap[name(lthr[g].fn)])
    /\ lthr' = lockStep(g, "idle")
    /\ UNCHANGED <<targetRunCtl, dvars, mvars, svars, pvars, omvars, runOnceMap, othr,
                   nestvars, foldvars>>

NextLock ==
    \/ \E g \in Goroutines : LockCall(g)
    \/ \E g \in Goroutines : LockProcCall(g)
    \/ \E g \in Goroutines : wLock(g)
    \/ \E g \in Goroutines : LockNeed(g)
    \/ \E g \in Goroutines : rLock(g)
    \/ \E g \in Goroutines : LockGet(g)
    \/ \E g \in Goroutines : LockEnter(g)
    \/ \E g \in Goroutines : LockFinish(g)
    \/ \E g \in Goroutines : LockCached(g)
    \/ \E g \in Goroutines : Lock(g)
    \/ \E g \in Goroutines : newProduct(g)
    \/ \E g \in Goroutines : ProdEnter(g)
    \/ \E g \in Goroutines : ProdFinish(g)
    \/ \E g \in Goroutines : ProdCached(g)

SpecLock == LockInit /\ [][NextLock]_vars

\* ------------------------------------ the adapters with a map of sync.Once
\* targetDep{id, fn} of dependency.go and funcDep{addr, fn} of the older
\* adapter: the dependency carries its function, the map holds one sync.Once
\* per id (the name, resp. the code address, of the function: the same for
\* the closures of one literal), and the error is a local of RunDependency.
OldInit ==
    /\ DriverInit /\ MergeOff /\ ShapeOff /\ ProcOff
    /\ omRuns = <<>> /\ omMutex = "free" /\ omThr = <<>>
    /\ omFirst = <<>> /\ omRan = <<>> /\ omOverlap = <<>>
    /\ targetRunCtl = <<>> /\ lthr = <<>>
    /\ runOnceMap = [id \in Ids |-> [once |-> "absent"]]
    /\ othr = [g \in Goroutines |-> [pc |-> "idle", fn |-> "A", hist |-> <<>>]]
    /\ nGraph = <<>> /\ nKind = "none" /\ nOnce = <<>> /\ nCall = <<>> /\ nRoot = "off"
    /\ fErrs = <<>> /\ fPerm = <<>> /\ fOut = <<0, 0>> /\ fPc = "off"

\* RunDependency is called on the dependency made of f: var err error, and
\* dep.runOnce() returns the Once of the id, a new one if there is none
OldCall(g) ==
    /\ othr[g].pc = "idle"
    /\ Len(othr[g].hist) < MaxRuns
    /\ \E f \in Funcs :
          /\ othr' = [othr EXCEPT ![g].pc = "once", ![g].fn = f]
          /\ runOnceMap' = IF runOnceMap[name(f)].once = "absent"
                           THEN [runOnceMap EXCEPT ![name(f)].once = "fresh"]
                           ELSE runOnceMap
    /\ UNCHANGED <<dvars, mvars, svars, pvars, omvars, targetRunCtl, lthr,
                   nestvars, foldvars>>

\* Do starts the function: err = dep.fn(ctx)
OldEnter(g) ==
    /\ othr[g].pc = "once"
    /\ onceOpen(runOnceMap[name(othr[g].fn)])
    /\ runOnceMap' = [runOnceMap EXCEPT ![name(othr[g].fn)].once = "running"]
    /\ runs' = [runs EXCEPT ![othr[g].fn] = @ + 1]
    /\ othr' = [othr EXCEPT ![g].pc = "body"]
    /\ UNCHANGED <<targetRunMap, returned, pc, batch, inv, errs, result, calls,
                   reached, contained, canceled, mvars, svars, pvars, omvars,
                   targetRunCtl, lthr, nestvars, foldvars>>

\* the value of the local err when RunDependency returns: assigned only
\* by the function given to Do, in the call that ran it
localErr(ran, e) == IF ran THEN e ELSE Nil

\* dep.fn ends: the call returns what it returned, or the panic goes on
OldFinish(g) ==
    /\ othr[g].pc = "body"
    /\ \E o \in ImplOutcomes :
          othr' = [othr EXCEPT ![g].pc = "idle",
                      ![g].hist = Append(@, [fn |-> othr[g].fn, ran |-> TRUE,
                          res |-> IF o.kind = "ret" THEN Ret(localErr(TRUE, o.err))
                                  ELSE o])]
    /\ runOnceMap' = [runOnceMap EXCEPT ![name(othr[g].fn)].once = "done"]
    /\ UNCHANGED <<dvars, mvars, svars, pvars, omvars, targetRunCtl, lthr,
                   nestvars, foldvars>>

\* Do when the Once is done: the function is not run, err is returned as
\* declared
OldCached(g) ==
    /\ othr[g].pc = "once"
    /\ oncePass(runOnceMap[name(othr[g].fn)])
    /\ othr' = [othr EXCEPT ![g].pc = "idle",
                   ![g].hist = Append(@, [fn |-> othr[g].fn, ran |-> FALSE,
                                          res |-> Ret(localErr(FALSE, Nil))])]
    /\ UNCHANGED <<runOnceMap, dvars, mvars, svars, pvars, omvars, targetRunCtl, lthr,
                   nestvars, foldvars>>

NextOld ==
    \/ \E g \in Goroutines : OldCall(g)
    \/ \E g \in Goroutines : OldEnter(g)
    \/ \E g \in Goroutines : OldFinish(g)
    \/ \E g \in Goroutines : OldCached(g)

SpecOld == OldInit /\ [][NextOld]_vars

\* ------------------------------------------------------- nested batches
\* Targets whose bodies run a batch of their own: the body of t hands
\* nGraph[t] to Deps or SerialDeps, waits for it, and ends. A batch of the
\* outer caller starts it all. The targets are 1..MaxTargets, listed in
\* that order in every batch; 0 stands for the outer caller.

NestInit ==
    /\ DriverInit /\ MergeOff /\ ShapeOff /\ ProcOff
    /\ omRuns = <<>> /\ omMutex = "free" /\ omThr = <<>>
    /\ omFirst = <<>> /\ omRan = <<>> /\ omOverlap = <<>>
    /\ targetRunCtl = <<>> /\ lthr = <<>>
    /\ runOnceMap = <<>> /\ othr = <<>>
    /\ nGraph \in [(0..MaxTargets) -> SUBSET (1..MaxTargets)]
    /\ nGraph[0] # {}
    /\ nKind \in {"parallel", "serial"}
    /\ nOnce = [t \in (1..MaxTargets) |-> [once |-> "fresh", err |-> FALSE]]
    /\ nCall = [pt \in (0..MaxTargets) \X (1..MaxTargets) |-> "none"]
    /\ nRoot = "none"
    /\ fErrs = <<>> /\ fPerm = <<>> /\ fOut = <<0, 0>> /\ fPc = "off"

\* the RunDependency calls a batch of p starts with: CtxDeps starts a worker
\* per dependency, SerialCtxDeps calls the first
nestFirst(p) ==
    IF nKind = "parallel" THEN nGraph[p]
    ELSE {t \in nGraph[p] : \A u \in nGraph[p] : t <= u}
\* the call SerialCtxDeps makes after the call on t returned nil
nestAfter(p, t) ==
    IF nKind = "parallel" THEN {}
    ELSE {u \in nGraph[p] : /\ u > t
                            /\ \A v \in nGraph[p] :
                                  v > t => u <= v}
\* the batch of p is over: group.Wait() is through, resp. the loop of
\* SerialCtxDeps is at its end or has met a failure
nestOver(p) ==
    IF nKind = "parallel" THEN \A t \in nGraph[p] : nCall[<<p, t>>] \in {"ok", "failed"}
    ELSE \/ \E t \in nGraph[p] : nCall[<<p, t>>] = "failed"
         \/ \A t \in nGraph[p] : nCall[<<p, t>>] = "ok"
\* nCall after the call of p on t changed to st and the calls on S started
nestCalls(p, t, st, q, S) ==
    [pt \in DOMAIN nCall |->
        IF pt = <<p, t>> THEN st
        ELSE IF pt[1] = q /\ pt[2] \in S THEN "call"
        ELSE nCall[pt]]

\* the outer caller calls Deps or SerialDeps
NestDeps ==
    /\ nRoot = "none"
    /\ nRoot' = "running"
    /\ nCall' = [pt \in DOMAIN nCall |->
                    IF pt[1] = 0 /\ pt[2] \in nestFirst(0) THEN "call"
                    ELSE nCall[pt]]
    /\ UNCHANGED <<nGraph, nKind, nOnce, dvars, mvars, svars, pvars, omvars,
                   targetRunCtl, lthr, runOnceMap, othr, foldvars>>

\* RunDependency of p's batch on t: once.Do starts the body, which starts
\* its own batch
NestEnter(p, t) ==
    /\ nCall[<<p, t>>] = "call"
    /\ onceOpen(nOnce[t])
    /\ nOnce' = [nOnce EXCEPT ![t].once = "running"]
    /\ nCall' = nestCalls(p, t, "body", t, nestFirst(t))
    /\ UNCHANGED <<nGraph, nKind, nRoot, dvars, mvars, svars, pvars, omvars,
                   targetRunCtl, lthr, runOnceMap, othr, foldvars>>

\* the batch of the body is over and the body ends: it returns nil or an
\* error, which is cached, or it panics, as it does with the abort signal of
\* its batch; a serial batch goes on after a nil
NestFinish(p, t) ==
    /\ nCall[<<p, t>>] = "body"
    /\ nestOver(t)
    /\ \E o \in IF \E u \in nGraph[t] : nCall[<<t, u>>] = "failed"
                 THEN {"panic"} ELSE {"nil", "err", "panic"} :
          /\ nOnce' = [nOnce EXCEPT ![t] = [once |-> "done", err |-> o = "err"]]
          /\ nCall' = IF o = "nil" THEN nestCalls(p, t, "ok", p, nestAfter(p, t))
                      ELSE nestCalls(p, t, "failed", p, {})
    /\ UNCHANGED <<nGraph, nKind, nRoot, dvars, mvars, svars, pvars, omvars,
                   targetRunCtl, lthr, runOnceMap, othr, foldvars>>

\* RunDependency when the Once is done: the cached error is returned
NestCached(p, t) ==
    /\ nCall[<<p, t>>] = "call"
    /\ oncePass(nOnce[t])
    /\ nCall' = IF nOnce[t].err THEN nestCalls(p, t, "failed", p, {})
                ELSE nestCalls(p, t, "ok", p, nestAfter(p, t))
    /\ UNCHANGED <<nGraph, nKind, nOnce, nRoot, dvars, mvars, svars, pvars, omvars,
                   targetRunCtl, lthr, runOnceMap, othr, foldvars>>

\* the batch of the outer caller returns or raises its abort signal
NestReturn ==
    /\ nRoot = "running"
    /\ nestOver(0)
    /\ nRoot' = "done"
    /\ UNCHANGED <<nGraph, nKind, nOnce, nCall, dvars, mvars, svars, pvars, omvars,
                   targetRunCtl, lthr, runOnceMap, othr, foldvars>>

NextNest ==
    \/ NestDeps
    \/ \E p \in (0..MaxTargets), t \in (1..MaxTargets) : NestEnter(p, t)
    \/ \E p \in (0..MaxTargets), t \in (1..MaxTargets) : NestFinish(p, t)
    \/ \E p \in (0..MaxTargets), t \in (1..MaxTargets) : NestCached(p, t)
    \/ NestReturn

\* a goroutine that can take a step is scheduled, and a body whose batch is
\* over ends
SpecNest == NestInit /\ [][NextNest]_vars /\ WF_vars(NextNest)

\* ------------------------------------------- the fold of the exit status
\* The loop of CtxDeps over the error slots, applied to the slots of a list
\* and to the slots of the same dependencies listed in another order.
FoldInit ==
    /\ DriverInit /\ MergeOff /\ ShapeOff /\ ProcOff
    /\ omRuns = <<>> /\ omMutex = "free" /\ omThr = <<>>
    /\ omFirst = <<>> /\ omRan = <<>> /\ omOverlap = <<>>
    /\ targetRunCtl = <<>> /\ lthr = <<>>
    /\ runOnceMap = <<>> /\ othr = <<>>
    /\ nGraph = <<>> /\ nKind = "none" /\ nOnce = <<>> /\ nCall = <<>> /\ nRoot = "off"
    /\ \E n \in 0..MaxFold :
          /\ fErrs \in [1..n -> {Nil} \cup {NewError("e", x) : x \in ExitCodes}]
          /\ fPerm \in {f \in [1..n -> 1..n] : \A i, j \in 1..n : f[i] = f[j] => i = j}
    /\ fOut = <<0, 0>>
    /\ fPc = "in"

FoldStep ==
    /\ fPc = "in"
    /\ fOut' = <<aggExit(fErrs, Len(fErrs)),
                 aggExit([i \in 1..Len(fErrs) |-> fErrs[fPerm[i]]], Len(fErrs))>>
    /\ fPc' = "out"
    /\ UNCHANGED <<fErrs, fPerm, dvars, mvars, svars, pvars, omvars, targetRunCtl,
                   lthr, runOnceMap, othr, nestvars>>

SpecFold == FoldInit /\ [][FoldStep]_vars

\* C10: changeExit(0,0)=0, changeExit(0,x)=x, changeExit(x,0)=x,
\* changeExit(x,x)=x, and changeExit(x,y)=1 for x # y both nonzero
C10_MergeTable ==
    mPc = "out" =>
        /\ (mOld = 0 /\ mNew = 0 => mOut = 0)
        /\ (mOld = 0 => mOut = mNew)
        /\ (mNew = 0 => mOut = mOld)
        /\ (mOld = mNew => mOut = mOld)
        /\ (mOld # mNew /\ mOld # 0 /\ mNew # 0 => mOut = 1)

\* two different nonzero codes have been merged
C10_Witness == mPc = "out" /\ mOld = 2 /\ mNew = 3 /\ mOut = 1


\* ------------------------------------------------------------ vocabulary
RECURSIVE SumRuns(_)
SumRuns(S) ==
    IF S = {} THEN 0
    ELSE LET f == CHOOSE x \in S : TRUE IN runs[f] + SumRuns(S \ {f})

\* how often the body of identity id has been entered: the function values
\* with one name share one body (the code of the function literal)
RunsOf(id) == SumRuns({f \in Funcs : name(f) = id})

Positions(c) == 1..Len(inv[c])
\* the batch of c got through makeDependencies
Adapted(c) == batch[c].kind # "none" /\ Len(batch[c].deps) = Len(batch[c].fns)
\* the last batch of c is over
Ended(c) == pc[c] = "idle" /\ result[c].kind # "none"
IsTarget(c, i) == batch[c].deps[i].kind = "target"
\* the RunDependency call of position i came back with a non-nil error
Failed(c, i) ==
    inv[c][i].pc = "done" /\ inv[c][i].res.kind = "ret" /\ ~inv[c][i].res.err.nil
\* every RunDependency call in flight or over, as <<caller, position>>
Invocations == {ci \in Callers \X (1..(MaxLen + 1)) : ci[2] \in Positions(ci[1])}
OnId(ci, id) == batch[ci[1]].deps[ci[2]].kind = "target" /\ batch[ci[1]].deps[ci[2]].id = id

\* C1 as stated: two finished batches whose adapted lists contain T have run
\* the body of T exactly once in total
C1_TwoBatchesContainingRunOnce ==
    \A id \in Ids : contained[id] >= 2 => RunsOf(id) = 1

\* C1 amended: once a finished batch has called RunDependency on T, and so
\* after two of them, the body of T has run exactly once, it is the function
\* registered for T, no later call runs it again, and every call returns the
\* error cached by that run
C1_TwoBatchesReachingRunOnce ==
    \A id \in Ids : reached[id] >= 1 =>
        /\ RunsOf(id) = 1
        /\ runs[targetRunMap[id].fn] = 1
        /\ targetRunMap[id].once = "done"
        /\ returned[id] \subseteq {targetRunMap[id].err}

\* Deps(A) raised boom twice and A ran once
C1_Witness ==
    /\ reached["main.A"] = 2
    /\ runs["A"] = 1
    /\ returned["main.A"] = {ErrBoom}
    /\ \E c \in Callers : Ended(c) /\ batch[c].kind = "parallel"
                          /\ result[c] = Fatal(1, <<"boom">>)

\* C2: of the concurrent RunDependency calls on one identity exactly one runs
\* the body, none of the others comes back before that run is over, and all
\* return the same error value
C2_ConcurrentCallsRunOnce ==
    \A id \in Ids :
        LET on == {ci \in Invocations : OnId(ci, id)}
            in_body == {ci \in on : inv[ci[1]][ci[2]].pc = "body"}
            back == {ci \in on : inv[ci[1]][ci[2]].pc = "done"}
            ran == {ci \in on : inv[ci[1]][ci[2]].ran}
        IN /\ Cardinality(in_body) <= 1
           /\ RunsOf(id) <= 1
           /\ Cardinality(ran) <= 1
           /\ (back # {} => targetRunMap[id].once = "done" /\ RunsOf(id) = 1)
           /\ Cardinality(returned[id]) <= 1
           /\ \A ci \in back : inv[ci[1]][ci[2]].res.kind = "ret" =>
                                  inv[ci[1]][ci[2]].res.err = targetRunMap[id].err

\* two callers ran A at the same time: one ran the body, both got boom
C2_Witness ==
    /\ batch["c1"].deps = <<[kind |-> "target", id |-> "main.A"]>>
    /\ batch["c2"].deps = <<[kind |-> "target", id |-> "main.A"]>>
    /\ Positions("c1") = {1} /\ Positions("c2") = {1}
    /\ inv["c1"][1].pc = "done" /\ inv["c2"][1].pc = "done"
    /\ inv["c1"][1].ran /\ ~inv["c2"][1].ran
    /\ inv["c1"][1].res = Ret(ErrBoom) /\ inv["c2"][1].res = Ret(ErrBoom)
    /\ runs["A"] = 1

C4_NoFailFast ==
    \A c \in Callers :
        batch[c].kind = "parallel" /\ Adapted(c) /\ (Ended(c) \/ pc[c] = "aggregate") =>
            \A i \in 1..Len(batch[c].deps) :
                /\ i \in Positions(c)
                /\ inv[c][i].pc = "done"
                /\ inv[c][i].ctx = batch[c].ctx
                /\ IsTarget(c, i) =>
                      /\ RunsOf(batch[c].deps[i].id) = 1
                      /\ targetRunMap[batch[c].deps[i].id].once = "done"

\* Deps(A, F): A failed, F still ran in this batch and returned nil
C4_Witness ==
    \E c \in Callers :
        /\ Ended(c) /\ batch[c].kind = "parallel"
        /\ batch[c].fns = <<"A", "F">>
        /\ inv[c][1].ran /\ inv[c][2].ran
        /\ errs[c] = <<ErrTwo, Nil>>
        /\ result[c] = Fatal(2, <<"two">>)

\* C5: the slots are read, and the batch ends, only when every worker has
\* come back; each slot then holds what its worker left
C5_JoinBarrier ==
    \A c \in Callers :
        batch[c].kind = "parallel" /\ Adapted(c) /\ (pc[c] = "aggregate" \/ Ended(c)) =>
            /\ Positions(c) = 1..Len(batch[c].deps)
            /\ \A i \in Positions(c) :
                  /\ inv[c][i].pc = "done"
                  /\ errs[c][i] = workerSlot(Nil, inv[c][i].res)

\* both workers are back, one of them from a panic, and the slots are to be read
C5_Witness ==
    \E c \in Callers :
        /\ pc[c] = "aggregate" /\ Positions(c) = {1, 2}
        /\ inv[c][1].ran /\ inv[c][2].ran
        /\ inv[c][1].res.kind = "panic"
        /\ errs[c][2] = ErrBoom


\* C6: a serial batch ends at the first dependency whose RunDependency returns
\* an error, with an abort signal, and has called no dependency after it
C6_SerialStopsAtFirstFailure ==
    \A c \in Callers : batch[c].kind = "serial" =>
        \A i \in Positions(c) : Failed(c, i) =>
            /\ Ended(c) /\ result[c].kind = "fatal"
            /\ \A j \in Positions(c) : j < i => ~Failed(c, j)
            /\ \A j \in Positions(c) : j > i => inv[c][j].pc = "none" /\ ~inv[c][j].ran

\* SerialDeps(A, F): A failed, F was never called and its body never ran
C6_Witness ==
    \E c \in Callers :
        /\ batch[c].kind = "serial" /\ batch[c].fns = <<"A", "F">>
        /\ Ended(c) /\ result[c] = Fatal(1, <<"boom">>)
        /\ inv[c][1].ran /\ inv[c][2].pc = "none"
        /\ RunsOf(name("F")) = 0

\* C7: in a serial batch the call for a position starts only after the calls
\* for all positions before it are back, so at most one of its calls is running
C7_SerialInOrder ==
    \A c \in Callers : batch[c].kind = "serial" =>
        /\ \A i, j \in Positions(c) :
              i < j /\ inv[c][j].pc # "none" =>
                  inv[c][i].pc = "done" /\ serialContinue(inv[c][i].res)
        /\ Cardinality({i \in Positions(c) : inv[c][i].pc \in {"call", "body"}}) <= 1

\* SerialDeps(A, F): A is back, F's body is running
C7_Witness ==
    \E c \in Callers :
        /\ batch[c].kind = "serial" /\ batch[c].fns = <<"A", "F">>
        /\ pc[c] = "serial"
        /\ inv[c][1].pc = "done" /\ inv[c][1].ran
        /\ inv[c][2].pc = "body"

\* C8: the abort signal of a serial batch carries the exit status and the
\* message (with or without its own label) of its first failed dependency,
\* and nothing of another one
C8_SerialSignalOfFirstFailure ==
    \A c \in Callers : batch[c].kind = "serial" /\ Adapted(c) /\ Ended(c) =>
        /\ result[c].kind = "fatal" => \E i \in Positions(c) : Failed(c, i)
        /\ \A i \in Positions(c) : Failed(c, i) =>
              LET e == inv[c][i].res.err
                  dep == batch[c].deps[i]
              IN /\ result[c].kind = "fatal"
                 /\ result[c].code = ExitStatus(e)
                 /\ \/ result[c].msg = Error(e)
                    \/ IsNamed(dep) /\ result[c].msg = Sprintf(DependencyName(dep), Error(e))

\* SerialDeps(A, F): A returned nil, F failed with status 2
C8_Witness ==
    \E c \in Callers :
        /\ batch[c].kind = "serial" /\ batch[c].fns = <<"A", "F">> /\ Ended(c)
        /\ inv[c][1].res = Ret(Nil) /\ inv[c][2].res = Ret(ErrTwo)
        /\ result[c] = Fatal(2, <<"two">>)

\* C9: when the first failed dependency of a serial batch is a
\* NamedDependency, the message of the abort signal is its error message
\* prefixed with its label
C9_SerialSignalLabeled ==
    \A c \in Callers : batch[c].kind = "serial" /\ Ended(c) =>
        \A i \in Positions(c) : Failed(c, i) /\ IsNamed(batch[c].deps[i]) =>
            result[c].msg = Sprintf(DependencyName(batch[c].deps[i]),
                                    Error(inv[c][i].res.err))

\* ----------------------------------------------- vocabulary of the batches
\* the RunDependency call of position i came back with an error or panicked
Broke(c, i) ==
    /\ inv[c][i].pc = "done"
    /\ inv[c][i].res.kind = "panic" \/ ~inv[c][i].res.err.nil
\* the exit status of what the call of position i ended with
StatusOf(c, i) ==
    LET out == inv[c][i].res
    IN IF out.kind = "ret" THEN ExitStatus(out.err)
       ELSE IF out.pv.isError THEN ExitStatus(out.pv.err) ELSE 1
\* the text of what the call of position i ended with
TextOf(c, i) ==
    LET out == inv[c][i].res
    IN IF out.kind = "ret" THEN Error(out.err)
       ELSE IF out.pv.isError THEN Error(out.pv.err) ELSE out.pv.text

RECURSIVE FoldStatus(_, _)
\* changeExit folded from 0 over the failed positions 1..k, in list order
FoldStatus(c, k) ==
    IF k = 0 THEN 0
    ELSE IF Broke(c, k) THEN changeExit(FoldStatus(c, k - 1), StatusOf(c, k))
    ELSE FoldStatus(c, k - 1)

RECURSIVE Entries(_, _)
\* one entry per failed position of 1..k, in list order, labelled where the
\* dependency has a label
Entries(c, k) ==
    IF k = 0 THEN <<>>
    ELSE IF Broke(c, k)
    THEN Append(Entries(c, k - 1),
                IF batch[c].deps[k].kind = "custom"
                THEN DependencyName(batch[c].deps[k]) \o <<": ">> \o TextOf(c, k)
                ELSE TextOf(c, k))
    ELSE Entries(c, k - 1)

RECURSIVE JoinLines(_)
JoinLines(es) ==
    IF es = <<>> THEN <<>>
    ELSE IF Len(es) = 1 THEN es[1]
    ELSE es[1] \o <<"\n">> \o JoinLines(Tail(es))

\* a parallel batch that got through makeDependencies and is over
ParallelOver(c) == batch[c].kind = "parallel" /\ Adapted(c) /\ Ended(c)

\* C11: a finished parallel batch has raised an abort signal exactly when
\* changeExit folded from 0 over the exit statuses of its failed dependencies,
\* in list order, is nonzero; the signal carries the folded status; with a
\* folded status of zero the batch has returned
C11_ParallelSignalIffFoldNonzero ==
    \A c \in Callers : ParallelOver(c) =>
        LET f == FoldStatus(c, Len(inv[c]))
        IN /\ (f # 0 => result[c].kind = "fatal" /\ result[c].code = f)
           /\ (f = 0 => result[c] = Returned)

\* C12: the message of the abort signal of a parallel batch is the entries of
\* its failed dependencies and of no other, joined by newlines in list order,
\* the entry of a named dependency prefixed with its label
C12_ParallelMessageInListOrder ==
    \A c \in Callers : ParallelOver(c) /\ result[c].kind = "fatal" =>
        /\ result[c].msg = JoinLines(Entries(c, Len(inv[c])))
        /\ Len(Entries(c, Len(inv[c]))) =
              Cardinality({i \in Positions(c) : Broke(c, i)})

\* Deps(N, A): both failed, N's entry carries its label and comes first
C12_Witness ==
    \E c \in Callers :
        /\ ParallelOver(c) /\ batch[c].fns = <<"N", "A">>
        /\ inv[c][1].res = Ret(ErrBad) /\ inv[c][2].res = Ret(ErrBoom)
        /\ result[c] = Fatal(1, <<"lbl", ": ", "bad", "\n", "boom">>)

\* C13: a panic in a body run by a worker of a parallel batch stays in the
\* worker: the slot of that dependency holds the panic value if it is an
\* error and else an error formatted from it, the batch ends only when all its
\* workers are back, and then with an abort signal, never with the panic
C13_PanicStaysInWorker ==
    \A c \in Callers : batch[c].kind = "parallel" /\ Adapted(c) =>
        /\ result[c].kind # "panic"
        /\ \A i \in Positions(c) :
              inv[c][i].pc = "done" /\ inv[c][i].res.kind = "panic" =>
                  LET v == inv[c][i].res.pv
                  IN /\ errs[c][i] = IF v.isError THEN v.err
                                     ELSE [nil |-> FALSE, msg |-> v.text, exit |-> 1]
                     /\ ~errs[c][i].nil
                     /\ Ended(c) =>
                           /\ \A j \in Positions(c) : inv[c][j].pc = "done"
                           /\ result[c].kind = "fatal"

\* Deps(A, F): A panicked with an error, F with a string; both are in the signal
C13_Witness ==
    \E c \in Callers :
        /\ ParallelOver(c) /\ batch[c].fns = <<"A", "F">>
        /\ inv[c][1].res = Pan(PanicErr) /\ inv[c][2].res = Pan(PanicStr)
        /\ errs[c][1] = ErrTwo
        /\ result[c] = Fatal(1, <<"two", "\n", "oops">>)

\* C14: once the body of an identity has ended with an error or a panic, every
\* RunDependency call on that identity that did not run the body returns that
\* error (the returned one, or the one the panic is converted to)
C14_FailureCachedForLaterCalls ==
    \A id \in Ids : \A ci, cj \in Invocations :
        /\ OnId(ci, id) /\ OnId(cj, id)
        /\ inv[ci[1]][ci[2]].ran /\ Broke(ci[1], ci[2])
        /\ inv[cj[1]][cj[2]].pc = "done" /\ ~inv[cj[1]][cj[2]].ran
        => /\ inv[cj[1]][cj[2]].res.kind = "ret"
           /\ StatusOf(cj[1], cj[2]) = StatusOf(ci[1], ci[2])
           /\ TextOf(cj[1], cj[2]) = TextOf(ci[1], ci[2])

\* a value of the list is neither a Dependency nor a function
HasInvalid(fns) == \E i \in 1..Len(fns) : fns[i] \notin Funcs \cup Customs

\* C15: a batch whose list holds an invalid value, at any position, makes no
\* RunDependency call and runs no body, and ends with an abort signal of exit
\* code 1
C15_InvalidValueAbortsBeforeRunning ==
    \A c \in Callers : batch[c].kind # "none" /\ HasInvalid(batch[c].fns) =>
        /\ inv[c] = <<>>
        /\ calls = 1 => \A f \in Funcs : runs[f] = 0
        /\ Ended(c) => result[c].kind = "fatal" /\ result[c].code = 1

\* C17: a record of the registry is never removed and never replaced: its
\* function stays the one of the first adaptation, its Once never goes back,
\* and its error is written only by the run of the body
C17_OneRecordPerIdentity ==
    [][\A id \in Ids : targetRunMap[id] # NoRun =>
          /\ targetRunMap'[id] # NoRun
          /\ targetRunMap'[id].fn = targetRunMap[id].fn
          /\ targetRunMap[id].once = "running" => targetRunMap'[id].once # "fresh"
          /\ targetRunMap[id].once = "done" => targetRunMap'[id] = targetRunMap[id]
          /\ targetRunMap'[id].err # targetRunMap[id].err =>
                targetRunMap[id].once = "running" /\ targetRunMap'[id].once = "done"]_vars

\* F was adapted and run first, G adapted later: the record is still F's
C17_Witness ==
    /\ Ended("c1") /\ batch["c1"].fns = <<"F">>
    /\ Ended("c2") /\ batch["c2"].fns = <<"G">>
    /\ targetRunMap[name("G")].fn = "F"
    /\ targetRunMap[name("G")].once = "done"
    /\ inv["c1"][1].ran /\ ~inv["c2"][1].ran
    /\ runs["F"] = 1 /\ runs["G"] = 0

\* C18: an error a body returned because its context was canceled is cached:
\* the body is not run again, and every call on the identity, whatever its
\* context, returns that error; no cancel resets a record
C18_CanceledErrorCached ==
    \A id \in Ids :
        /\ RunsOf(id) <= 1
        /\ RunsOf(id) = 1 => targetRunMap[id].once # "fresh"
        /\ targetRunMap[id].once = "done" /\ targetRunMap[id].err = ErrCanceled =>
              \A ci \in Invocations :
                  OnId(ci, id) /\ inv[ci[1]][ci[2]].pc = "done" =>
                      inv[ci[1]][ci[2]].res = Ret(ErrCanceled)

\* A returned the cancel error in an earlier batch; CtxDeps(Background, A)
\* got it again without running A
C18_Witness ==
    /\ ParallelOver("c1") /\ batch["c1"].fns = <<"A">>
    /\ batch["c1"].ctx = Background
    /\ ~inv["c1"][1].ran /\ inv["c1"][1].res = Ret(ErrCanceled)
    /\ runs["A"] = 1
    /\ result["c1"] = Fatal(1, <<"context canceled">>)

\* the finished RunDependency calls of the goroutines
ProdRuns == UNION {{thr[g].hist[k] : k \in 1..Len(thr[g].hist)} : g \in Goroutines}

\* C19: every call of one procedure with one name returns the same Product;
\* over all RunDependency calls on it the impl is invoked once, with that
\* name, and every call that comes back returns the error of that invocation
C19_ProductRunsImplOnce ==
    /\ \A proc \in Procs, n \in Names :
          /\ Cardinality(handed[proc][n]) <= 1
          /\ implCalls[ImplOf(proc)][n] <= 1
          /\ handed[proc][n] # {} => handed[proc][n] = {products[proc][n]}
    /\ \A r \in ProdRuns :
          /\ r.prod = products[r.proc][r.nm]
          /\ heap[r.prod].once = "done"
          /\ implCalls[ImplOf(r.proc)][r.nm] = 1
          /\ r.res.kind = "ret" => r.res.err = heap[r.prod].err
    /\ \A r1, r2 \in ProdRuns :
          r1.proc = r2.proc /\ r1.nm = r2.nm /\ r1.res.kind = "ret"
          /\ r2.res.kind = "ret" => r1.res = r2.res

\* both goroutines asked p for "x" and ran it: one product, one invocation,
\* the same error twice
C19_Witness ==
    /\ Len(thr["g1"].hist) = 1 /\ Len(thr["g2"].hist) = 1
    /\ thr["g1"].hist[1] = [proc |-> "p", nm |-> "x", prod |-> 1, res |-> Ret(ErrBoom)]
    /\ thr["g2"].hist[1] = thr["g1"].hist[1]
    /\ implCalls["implP"]["x"] = 1
    /\ Len(heap) = 1

\* C20: products are apart by (procedure, name): different pairs never get
\* the same Product, the Once of a Product is used only by the one invocation
\* of its own impl with its own name, no goroutine holds a procedure's mutex
\* while an impl runs or while it waits, and a RunDependency call waits only
\* while its own Product is running
C20_ProductsIsolated ==
    /\ \A p1, p2 \in Procs, n1, n2 \in Names :
          <<p1, n1>> # <<p2, n2>> => handed[p1][n1] \cap handed[p2][n2] = {}
    /\ \A proc \in Procs, n \in Names :
          implCalls[ImplOf(proc)][n] =
              IF products[proc][n] # NoProd /\ heap[products[proc][n]].once # "fresh"
              THEN 1 ELSE 0
    /\ \A proc \in Procs : mutex[proc] # "free" => thr[mutex[proc]].pc = "section"
    /\ \A g \in Goroutines :
          /\ thr[g].pc = "call" =>
                \/ heap[thr[g].prod].once = "running"
                \/ ENABLED (ProdEnter(g) \/ ProdCached(g))
          /\ thr[g].pc = "lock" /\ mutex[thr[g].proc] = "free" => ENABLED Lock(g)

\* the impl of p runs for "x" and for "y" at the same time, after q's own
\* impl has run for "x"
C20_Witness ==
    /\ thr["g1"].pc = "body" /\ thr["g1"].proc = "p" /\ thr["g1"].nm = "x"
    /\ thr["g2"].pc = "body" /\ thr["g2"].proc = "p" /\ thr["g2"].nm = "y"
    /\ Len(thr["g2"].hist) = 1 /\ thr["g2"].hist[1].proc = "q"
    /\ thr["g2"].hist[1].nm = "x"
    /\ implCalls["implQ"]["x"] = 1 /\ implCalls["implP"]["x"] = 1
    /\ implCalls["implP"]["y"] = 1

\* the calls of Do that have returned or panicked, of all goroutines
OmDone == UNION {{omThr[g].hist[k] : k \in 1..Len(omThr[g].hist)} : g \in Goroutines}

InBody(g) == lthr[g].pc = "body" \/ thr[g].pc = "body"

\* C22: a goroutine inside a target's body holds the registry lock neither for
\* writing nor for reading, and no goroutine inside an impl holds a
\* procedure's mutex: the locks are held only inside needTargetDep, getRun
\* and newProduct, which never wait for a body, so that a goroutine asking for
\* a free lock gets it whatever bodies are running
C22_NoLockHeldInBody ==
    /\ \A g \in Goroutines :
          InBody(g) =>
             /\ targetRunCtl.w # g /\ g \notin targetRunCtl.r
             /\ \A proc \in Procs : mutex[proc] # g
    /\ targetRunCtl.w # "free" => lthr[targetRunCtl.w].pc = "need"
    /\ \A g \in targetRunCtl.r : lthr[g].pc = "get"
    /\ \A proc \in Procs : mutex[proc] # "free" => thr[mutex[proc]].pc = "section"
    /\ \A g \in Goroutines :
          /\ lthr[g].pc = "lock" /\ targetRunCtl = [w |-> "free", r |-> {}]
                => ENABLED wLock(g)
          /\ lthr[g].pc = "need" => ENABLED LockNeed(g)
          /\ lthr[g].pc = "rlock" /\ targetRunCtl.w = "free" => ENABLED rLock(g)
          /\ lthr[g].pc = "get" => ENABLED LockGet(g)
          /\ thr[g].pc = "lock" /\ mutex[thr[g].proc] = "free" => ENABLED Lock(g)
          /\ thr[g].pc = "section" => ENABLED newProduct(g)

\* while g1 is inside the body of A, g2 has been handed the product p("x")
\* and run its impl, and has then gone through needTargetDep and getRun for F
\* and is inside F's body
C22_Witness ==
    /\ lthr["g1"].pc = "body" /\ lthr["g1"].fn = "A" /\ lthr["g1"].n = 0
    /\ thr["g1"].hist = <<>>
    /\ Len(thr["g2"].hist) = 1 /\ thr["g2"].hist[1].proc = "p"
    /\ lthr["g2"].pc = "body" /\ lthr["g2"].fn = "F" /\ lthr["g2"].saw
    /\ targetRunCtl = [w |-> "free", r |-> {}]

\* C23: when the body of a target of a batch ends with the abort signal of a
\* nested batch (a panic whose value is the error Fatal made, here of exit
\* code 2), the batch ends with that signal: either the panic itself goes on
\* to the caller, or what the batch raises carries that exit code
C23_NestedAbortUnwindsThroughParent ==
    \A c \in Callers :
        /\ Adapted(c) /\ Ended(c)
        /\ \E i \in Positions(c) :
              IsTarget(c, i) /\ inv[c][i].ran /\ inv[c][i].res = Pan(PanicErr)
        => \/ result[c] = Raised(PanicErr)
           \/ result[c].kind = "fatal" /\ result[c].code = ExitStatus(PanicErr.err)

\* C23 (amended): such a signal goes on unchanged through a serial batch; in
\* a parallel batch the worker recovers it like any panic: it becomes the
\* error of that dependency's slot, and the batch raises a signal of its own
\* once all workers are back, with the merged exit code, which is that of
\* the nested signal only if no other failure has another nonzero status
C23_NestedAbortMergedByParallel ==
    \A c \in Callers : \A i \in Positions(c) :
        /\ Adapted(c) /\ Ended(c) /\ IsTarget(c, i)
        /\ inv[c][i].ran /\ inv[c][i].res = Pan(PanicErr)
        => /\ batch[c].kind = "serial" => result[c] = Raised(PanicErr)
           /\ batch[c].kind = "parallel" =>
                 /\ errs[c][i] = PanicErr.err
                 /\ \A j \in Positions(c) : inv[c][j].pc = "done"
                 /\ result[c].kind = "fatal"
                 /\ result[c].code = FoldStatus(c, Len(inv[c]))
                 /\ result[c].code = ExitStatus(PanicErr.err) <=>
                       \A j \in Positions(c) :
                           Broke(c, j) => StatusOf(c, j) \in {0, ExitStatus(PanicErr.err)}

\* Deps(F, N): F's body was aborted by a nested batch with exit code 2, N
\* failed with status 3: the batch raised a signal of exit code 1
C23_Witness ==
    \E c \in Callers :
        /\ ParallelOver(c) /\ batch[c].fns = <<"F", "N">>
        /\ inv[c][1].ran /\ inv[c][1].res = Pan(PanicErr)
        /\ inv[c][2].res = Ret(ErrBad)
        /\ result[c] = Fatal(1, <<"two", "\n", "lbl", ": ", "bad">>)

\* the finished RunDependency calls on the older adapters, as <<goroutine, k>>
OldDone == {gk \in Goroutines \X (1..MaxRuns) : gk[2] <= Len(othr[gk[1]].hist)}

\* C24: with the adapters that keep a map of sync.Once, the body of an
\* identity is run by one call at most; the call that ran it returns its
\* error, and every call on the identity that comes back without having run
\* the body, a repeated one in particular, returns nil
C24_RepeatedCallReturnsNil ==
    /\ \A id \in Ids : RunsOf(id) <= 1
    /\ \A gk, hl \in OldDone :
          LET h1 == othr[gk[1]].hist[gk[2]]
              h2 == othr[hl[1]].hist[hl[2]]
          IN /\ ~h1.ran => h1.res = Ret(Nil)
             /\ h1.ran /\ h2.ran /\ name(h1.fn) = name(h2.fn) => gk = hl
             /\ h1.ran => runs[h1.fn] = 1

\* RunDependency on F ran the body and returned its error; the repeated call
\* did not run it and returned nil
C24_Witness ==
    /\ othr["g1"].hist = <<[fn |-> "F", ran |-> TRUE, res |-> Ret(ErrBoom)],
                           [fn |-> "F", ran |-> FALSE, res |-> Ret(Nil)]>>
    /\ runs["F"] = 1

\* C25: the function values of one identity share one record, which is made
\* at the first adaptation with the function supplied then and keeps it
\* through every later adaptation; a body is entered only for the function
\* of the record, and only when no function of the identity has run before:
\* the function adapted later is never executed
C25_FirstAdaptedFunctionRuns ==
    [][\A id \in Ids :
          /\ targetRunMap[id] = NoRun /\ targetRunMap'[id] # NoRun =>
                \E c \in Callers :
                    /\ Len(batch'[c].deps) = Len(batch[c].deps) + 1
                    /\ targetRunMap'[id] = NewRun(batch[c].fns[Len(batch'[c].deps)])
          /\ targetRunMap[id] # NoRun => targetRunMap'[id].fn = targetRunMap[id].fn
          /\ \A f \in Funcs :
                name(f) = id /\ runs'[f] # runs[f] =>
                    /\ targetRunMap[id].fn = f
                    /\ RunsOf(id) = 0 /\ runs'[f] = 1]_vars

\* Deps(G, F) adapted the closure G first: G ran once, F's call returned G's
\* error; a later SerialDeps(F) did not run F either
C25_Witness ==
    /\ ParallelOver("c1") /\ batch["c1"].fns = <<"G", "F">>
    /\ Ended("c2") /\ batch["c2"].kind = "serial" /\ batch["c2"].fns = <<"F">>
    /\ targetRunMap[name("F")].fn = "G"
    /\ runs["G"] = 1 /\ runs["F"] = 0
    /\ inv["c1"][1].res = Ret(ErrBoom) /\ inv["c1"][2].res = Ret(ErrBoom)
    /\ inv["c2"][1].res = Ret(ErrBoom) /\ ~inv["c2"][1].ran

RECURSIVE NestReach(_, _)
\* the targets reached from the targets S in at most k steps of nGraph
NestReach(S, k) ==
    IF k = 0 THEN S
    ELSE NestReach(S \cup UNION {nGraph[t] : t \in S}, k - 1)
\* no body depends, directly or through other bodies, on its own target
NoSelfDependency ==
    \A t \in (1..MaxTargets) : t \notin NestReach(nGraph[t], MaxTargets)
\* no RunDependency call is waiting or running, and the outer batch is over
NestQuiet ==
    /\ nRoot = "done"
    /\ \A pt \in DOMAIN nCall : nCall[pt] \in {"none", "ok", "failed"}

\* C26: when no body depends on its own target, directly or transitively,
\* and every body ends once its batch is over, the outer batch and every
\* batch started by a body eventually returns or raises its abort signal, and
\* no RunDependency call stays waiting at a Once
C26_BatchesTerminate == NoSelfDependency => <>[]NestQuiet

\* Deps(1, 2, 3) with the body of 1 depending on 2 and that of 2 on 3 is
\* over: 2 and 3
\* were each asked for by two batches, one of which waited at the Once
C26_Witness ==
    /\ nKind = "parallel" /\ nRoot = "done"
    /\ nGraph = [p \in (0..MaxTargets) |->
                   IF p = 0 THEN {1, 2, 3} ELSE IF p = 1 THEN {2}
                   ELSE IF p = 2 THEN {3} ELSE {}]
    /\ nCall[<<0, 2>>] = "ok" /\ nCall[<<1, 2>>] = "ok"
    /\ nCall[<<0, 3>>] = "ok" /\ nCall[<<2, 3>>] = "ok"

\* the exit statuses of the failed dependencies among the slots
FoldStatuses == {ExitStatus(fErrs[i]) : i \in {j \in 1..Len(fErrs) : ~fErrs[j].nil}}

\* C27: the exit status folded by changeExit from 0 over the failed slots is
\* the same for every order of the same dependencies: 0 if all statuses are
\* 0, c if every nonzero status is c, and 1 otherwise
C27_FoldIgnoresOrder ==
    fPc = "out" =>
        /\ fOut[1] = fOut[2]
        /\ fOut[1] = IF FoldStatuses \subseteq {0} THEN 0
                     ELSE IF \E x \in ExitCodes : FoldStatuses \ {0} = {x}
                     THEN CHOOSE x \in ExitCodes : FoldStatuses \ {0} = {x}
                     ELSE 1

\* statuses 2, 3, 2 fold to 1 in list order and in the order 3, 2, 2
C27_Witness ==
    /\ fPc = "out" /\ Len(fErrs) = 3
    /\ ExitStatus(fErrs[1]) = 2 /\ ExitStatus(fErrs[2]) = 3 /\ ExitStatus(fErrs[3]) = 2
    /\ fPerm = <<2, 1, 3>>
    /\ fOut = <<1, 1>>

\* C28: a parallel batch that has returned without a signal had no failed
\* dependency: every RunDependency call of it returned nil and none panicked
C28_SilentOnlyIfAllNil ==
    \A c \in Callers : ParallelOver(c) /\ result[c] = Returned =>
        \A i \in Positions(c) : inv[c][i].res = Ret(Nil)

\* C29: a panic of RunDependency in a serial batch ends the batch at once with
\* that panic, its value unchanged, and not with an abort signal; the
\* dependencies after it are not called and their bodies not entered by it
C29_SerialPanicGoesThrough ==
    \A c \in Callers : batch[c].kind = "serial" /\ Adapted(c) =>
        \A i \in Positions(c) :
            inv[c][i].pc = "done" /\ inv[c][i].res.kind = "panic" =>
                /\ Ended(c)
                /\ result[c] = Raised(inv[c][i].res.pv)
                /\ \A j \in Positions(c) : j > i => inv[c][j] = NoInv
                /\ \A j \in Positions(c) : j < i => inv[c][j].res = Ret(Nil)

\* SerialDeps(A, F): A panicked with an error value; the panic went on as it
\* was and F was never called
C29_Witness ==
    \E c \in Callers :
        /\ batch[c].kind = "serial" /\ batch[c].fns = <<"A", "F">> /\ Ended(c)
        /\ inv[c][1].res = Pan(PanicErr)
        /\ inv[c][2] = NoInv /\ runs["F"] = 0
        /\ result[c] = Raised(PanicErr)

====
